---- MODULE Spec2Model ----
(***************************************************************************)
(* A model of the single-threaded epoll HTTP server of src/src/main.rs:    *)
(* the HTTP codec (HttpParser::parse, decode_chunked, HttpResponse::       *)
(* to_bytes), the router (Router::handle) and the reactor (Server::run,    *)
(* accept_connection, handle_client_data, remove_connection).              *)
(*                                                                         *)
(* A byte string is a sequence of one-byte symbols.  The two line-break    *)
(* bytes are written CR and LF.  The requests the peers send hold only     *)
(* ASCII bytes, for which String::from_utf8_lossy is the identity; bytes   *)
(* without a printable ASCII symbol are written CodeByte(n).               *)
(***************************************************************************)
EXTENDS Integers, Sequences, FiniteSets, TLC

CR == "CR"
LF == "LF"
TAB == "TAB"
\* Option<T>: None is the empty sequence, Some(x) the one-element sequence
None == <<>>
Some(x) == <<x>>

(***************************************************************************)
(* String helpers (the Rust std functions the code calls).                 *)
(***************************************************************************)
SetMin(S) == CHOOSE x \in S : \A y \in S : x <= y
SetMax(S) == CHOOSE x \in S : \A y \in S : x >= y
MinOf(a, b) == IF a <= b THEN a ELSE b

\* char::is_whitespace on the bytes of the model
IsWhitespace(b) == b \in {" ", TAB, CR, LF}

\* str::trim
Trim(s) ==
  LET idx == {i \in 1..Len(s) : ~IsWhitespace(s[i])}
  IN  IF idx = {} THEN <<>> ELSE SubSeq(s, SetMin(idx), SetMax(idx))

\* str::find(char): the 1-based index of the first occurrence, 0 when absent
Find(s, b) ==
  LET idx == {i \in 1..Len(s) : s[i] = b}
  IN  IF idx = {} THEN 0 ELSE SetMin(idx)

\* str::find(&str), 1-based, 0 when absent
FindStr(s, sub) ==
  LET idx == {i \in 1..(Len(s) - Len(sub) + 1) : SubSeq(s, i, i + Len(sub) - 1) = sub}
  IN  IF idx = {} THEN 0 ELSE SetMin(idx)

\* str::contains(&str)
Contains(s, sub) == sub = <<>> \/ FindStr(s, sub) # 0

\* str::starts_with
StartsWith(s, pre) == Len(pre) <= Len(s) /\ SubSeq(s, 1, Len(pre)) = pre

UpperLetters == <<"A","B","C","D","E","F","G","H","I","J","K","L","M",
                  "N","O","P","Q","R","S","T","U","V","W","X","Y","Z">>
LowerLetters == <<"a","b","c","d","e","f","g","h","i","j","k","l","m",
                  "n","o","p","q","r","s","t","u","v","w","x","y","z">>

\* str::to_lowercase
ToLower(s) ==
  [i \in 1..Len(s) |->
     IF \E k \in 1..26 : UpperLetters[k] = s[i]
     THEN LowerLetters[CHOOSE k \in 1..26 : UpperLetters[k] = s[i]]
     ELSE s[i]]

\* str::lines: split after every LF; a piece loses its final LF and then a
\* final CR; a last piece without LF is kept as it is; no empty last piece
RECURSIVE LinesFrom(_, _)
LinesFrom(s, start) ==
  IF start > Len(s) THEN <<>>
  ELSE LET nl == {i \in start..Len(s) : s[i] = LF}
       IN  IF nl = {} THEN <<SubSeq(s, start, Len(s))>>
           ELSE LET e == SetMin(nl)
                    piece == SubSeq(s, start, e - 1)
                IN  <<(IF piece # <<>> /\ piece[Len(piece)] = CR
                       THEN SubSeq(piece, 1, Len(piece) - 1) ELSE piece)>>
                    \o LinesFrom(s, e + 1)

Lines(s) == LinesFrom(s, 1)

\* str::split_whitespace
RECURSIVE SplitFrom(_, _, _)
SplitFrom(s, i, cur) ==
  IF i > Len(s) THEN (IF cur = <<>> THEN <<>> ELSE <<cur>>)
  ELSE IF IsWhitespace(s[i])
       THEN (IF cur = <<>> THEN <<>> ELSE <<cur>>) \o SplitFrom(s, i + 1, <<>>)
       ELSE SplitFrom(s, i + 1, Append(cur, s[i]))

split_whitespace(s) == SplitFrom(s, 1, <<>>)

\* [&str]::join("\n") of lines[from..]
RECURSIVE JoinFrom(_, _)
JoinFrom(lines, from) ==
  IF from > Len(lines) THEN <<>>
  ELSE IF from = Len(lines) THEN lines[from]
  ELSE lines[from] \o <<LF>> \o JoinFrom(lines, from + 1)

\* HashMap::insert: the last value written for a key wins
MapInsert(m, k, v) == [x \in DOMAIN m \cup {k} |-> IF x = k THEN v ELSE m[x]]
EmptyMap == [x \in {} |-> <<>>]

(***************************************************************************)
(* Hexadecimal numbers: usize::from_str_radix(_, 16) and format!("{:x}").  *)
(***************************************************************************)
HexDigits == <<"0","1","2","3","4","5","6","7","8","9","a","b","c","d","e","f">>
HexErr == -1
\* a value that stands for every chunk size too large for the model's integers
HexHuge == 1000000

HexDigitValue(b) ==
  LET l == ToLower(<<b>>)[1]
  IN  IF \E k \in 1..16 : HexDigits[k] = l
      THEN (CHOOSE k \in 1..16 : HexDigits[k] = l) - 1
      ELSE HexErr

RECURSIVE HexValue(_, _, _)
HexValue(s, i, acc) ==
  IF i > Len(s) THEN acc
  ELSE HexValue(s, i + 1, MinOf(HexHuge, acc * 16 + HexDigitValue(s[i])))

\* usize::from_str_radix(s, 16): an optional '+', then one or more hex digits;
\* HexErr for anything else
from_str_radix16(s) ==
  LET d == IF s # <<>> /\ s[1] = "+" THEN Tail(s) ELSE s
  IN  IF d = <<>> \/ \E i \in 1..Len(d) : HexDigitValue(d[i]) = HexErr
      THEN HexErr
      ELSE HexValue(d, 1, 0)

\* format!("{:x}", n)
RECURSIVE ToHex(_)
ToHex(n) == IF n < 16 THEN <<HexDigits[n + 1]>>
            ELSE Append(ToHex(n \div 16), HexDigits[(n % 16) + 1])

(***************************************************************************)
(* Bytes and chars: `b as char` and String::push                           *)
(***************************************************************************)
\* the bytes 0x20..0x7e, in order (0x60 is written GRAVE)
AsciiGraphic ==
  <<" ","!","\"","#","$","%","&","'","(",")","*","+",",","-",".","/",
    "0","1","2","3","4","5","6","7","8","9",":",";","<","=",">","?",
    "@","A","B","C","D","E","F","G","H","I","J","K","L","M","N","O",
    "P","Q","R","S","T","U","V","W","X","Y","Z","[","\\","]","^","_",
    "GRAVE","a","b","c","d","e","f","g","h","i","j","k","l","m","n","o",
    "p","q","r","s","t","u","v","w","x","y","z","{","|","}","~">>

\* the symbol of the byte with value n
CodeByte(n) ==
  IF n = 9 THEN TAB ELSE IF n = 10 THEN LF ELSE IF n = 13 THEN CR
  ELSE IF n >= 32 /\ n <= 126 THEN AsciiGraphic[n - 31]
  ELSE "x" \o ToString(n)

\* the value of a byte
ByteCode(b) == CHOOSE n \in 0..255 : CodeByte(n) = b

\* String::push(n as char) for a u8 n: the UTF-8 encoding of the char
\* U+0000..U+00FF, one byte below 0x80 and two bytes from 0x80 on
push_char(n) ==
  IF n < 128 THEN <<CodeByte(n)>>
  ELSE <<CodeByte(192 + (n \div 64)), CodeByte(128 + (n % 64))>>

(***************************************************************************)
(* HttpParser::url_decode                                                  *)
(***************************************************************************)
\* the while loop over the bytes: `%` takes the next two bytes (whatever
\* they are, and also when only one is left) and pushes the char they name
\* in hex, if they do; `+` pushes a space; any other byte is pushed as char
RECURSIVE url_decode_from(_, _, _)
url_decode_from(encoded, i, result) ==
  IF i > Len(encoded) THEN result
  ELSE IF encoded[i] = "%"
  THEN IF i + 2 <= Len(encoded)
       THEN LET byte_val == from_str_radix16(<<encoded[i + 1], encoded[i + 2]>>)
            IN  url_decode_from(encoded, i + 3,
                  IF byte_val = HexErr THEN result
                  ELSE result \o push_char(byte_val))
       ELSE result
  ELSE IF encoded[i] = "+"
  THEN url_decode_from(encoded, i + 1, Append(result, " "))
  ELSE url_decode_from(encoded, i + 1,
         result \o push_char(ByteCode(encoded[i])))

url_decode(encoded) == url_decode_from(encoded, 1, <<>>)

(***************************************************************************)
(* HttpParser                                                              *)
(***************************************************************************)
Str_transfer_encoding ==
  <<"t","r","a","n","s","f","e","r","-","e","n","c","o","d","i","n","g">>
Str_chunked == <<"c","h","u","n","k","e","d">>
Str_content_type == <<"c","o","n","t","e","n","t","-","t","y","p","e">>

\* a decoder that gives up at a size line it cannot read
RECURSIVE decode_loop_abort(_, _, _)
decode_loop_abort(lines, i, result) ==
  IF i > Len(lines) THEN result
  ELSE LET size == from_str_radix16(Trim(lines[i]))
       IN  IF size = HexErr \/ size = 0 THEN result
           ELSE IF i + 1 <= Len(lines)
                THEN decode_loop_abort(lines, i + 2,
                       result \o SubSeq(lines[i + 1], 1,
                                        MinOf(size, Len(lines[i + 1]))))
                ELSE decode_loop_abort(lines, i + 2, result)

\* HttpParser::decode_chunked: the loop over the body's lines
RECURSIVE decode_loop(_, _, _)
decode_loop(lines, i, result) ==
  IF i > Len(lines) THEN result
  ELSE LET chunk_size == from_str_radix16(Trim(lines[i]))
       IN  IF chunk_size = HexErr THEN decode_loop(lines, i + 1, result)
           ELSE IF chunk_size = 0 THEN result
           ELSE IF i + 1 <= Len(lines)
                THEN decode_loop(lines, i + 2,
                       result \o SubSeq(lines[i + 1], 1,
                                        MinOf(chunk_size, Len(lines[i + 1]))))
                ELSE decode_loop(lines, i + 2, result)

decode_chunked(data) == decode_loop(Lines(data), 1, <<>>)

\* str::split(char): the pieces between the occurrences of ch, empty ones
\* included, at least one
RECURSIVE SplitChar(_, _)
SplitChar(s, ch) ==
  LET pos == Find(s, ch)
  IN  IF pos = 0 THEN <<s>>
      ELSE <<SubSeq(s, 1, pos - 1)>> \o SplitChar(SubSeq(s, pos + 1, Len(s)), ch)
\* str::split(&str)
RECURSIVE SplitStr(_, _)
SplitStr(s, sep) ==
  LET pos == FindStr(s, sep)
  IN  IF pos = 0 THEN <<s>>
      ELSE <<SubSeq(s, 1, pos - 1)>>
           \o SplitStr(SubSeq(s, pos + Len(sep), Len(s)), sep)
\* str::trim_end_matches(&str)
RECURSIVE trim_end_matches(_, _)
trim_end_matches(s, suf) ==
  IF suf # <<>> /\ Len(suf) <= Len(s) /\ SubSeq(s, Len(s) - Len(suf) + 1, Len(s)) = suf
  THEN trim_end_matches(SubSeq(s, 1, Len(s) - Len(suf)), suf)
  ELSE s

Str_urlencoded == <<"a","p","p","l","i","c","a","t","i","o","n","/","x","-","w","w","w","-","f","o","r","m","-","u","r","l","e","n","c","o","d","e","d">>
Str_multipart == <<"m","u","l","t","i","p","a","r","t","/","f","o","r","m","-","d","a","t","a">>
Str_boundary == <<"b","o","u","n","d","a","r","y","=">>
Str_content_disposition == <<"c","o","n","t","e","n","t","-","d","i","s","p","o","s","i","t","i","o","n">>
Str_name_quote == <<"n","a","m","e","=","\"">>
Str_filename_quote == <<"f","i","l","e","n","a","m","e","=","\"">>
Str_text_plain == <<"t","e","x","t","/","p","l","a","i","n">>

\* HttpParser::parse_query_string: the loop over the pieces between `&`; a
\* piece without `=` is a key with an empty value
RECURSIVE query_loop(_, _, _)
query_loop(pieces, i, params) ==
  IF i > Len(pieces) THEN params
  ELSE LET param == pieces[i]
           pos == Find(param, "=")
       IN  query_loop(pieces, i + 1,
             IF pos # 0
             THEN MapInsert(params, url_decode(SubSeq(param, 1, pos - 1)),
                            url_decode(SubSeq(param, pos + 1, Len(param))))
             ELSE MapInsert(params, url_decode(param), <<>>))
parse_query_string(query_string) ==
  query_loop(SplitChar(query_string, "&"), 1, EmptyMap)

\* parse_form_data, the branch of application/x-www-form-urlencoded: the
\* loop over the pieces between `&`; a piece without `=` is skipped
RECURSIVE urlencoded_loop(_, _, _)
urlencoded_loop(pieces, i, fields) ==
  IF i > Len(pieces) THEN fields
  ELSE LET param == pieces[i]
           pos == Find(param, "=")
       IN  urlencoded_loop(pieces, i + 1,
             IF pos # 0
             THEN MapInsert(fields, url_decode(SubSeq(param, 1, pos - 1)),
                            url_decode(SubSeq(param, pos + 1, Len(param))))
             ELSE fields)

\* the text between `key"` and the next quote of a Content-Disposition
\* value: None when the key or the closing quote is missing
quoted_after(header_value, key) ==
  LET start == FindStr(header_value, key)
      rest == SubSeq(header_value, start + Len(key), Len(header_value))
      end == Find(rest, "\"")
  IN  IF start = 0 \/ end = 0 THEN None ELSE Some(SubSeq(rest, 1, end - 1))

\* parse_multipart: one header line of a part
part_header_line(acc, header_line) ==
  LET colon_pos == Find(header_line, ":")
      header_name == ToLower(Trim(SubSeq(header_line, 1, colon_pos - 1)))
      header_value == Trim(SubSeq(header_line, colon_pos + 1, Len(header_line)))
      name == quoted_after(header_value, Str_name_quote)
      file == quoted_after(header_value, Str_filename_quote)
  IN  IF colon_pos = 0 THEN acc
      ELSE IF header_name = Str_content_disposition
      THEN [acc EXCEPT !.field_name = IF name = None THEN @ ELSE name[1],
                       !.filename = IF file = None THEN @ ELSE file]
      ELSE IF header_name = Str_content_type
      THEN [acc EXCEPT !.content_type_part = header_value]
      ELSE acc
RECURSIVE part_header_loop(_, _, _)
part_header_loop(lines, i, acc) ==
  IF i > Len(lines) THEN acc
  ELSE part_header_loop(lines, i + 1, part_header_line(acc, lines[i]))

\* parse_multipart: the loop over the parts after the first boundary, which
\* ends at the first part that contains `--`; a part without CRLF CRLF is
\* skipped
RECURSIVE multipart_loop(_, _, _)
multipart_loop(parts, i, acc) ==
  IF i > Len(parts) \/ Contains(parts[i], <<"-", "-">>) THEN acc
  ELSE
  LET part == Trim(parts[i])
      blank_line_pos == FindStr(part, <<CR, LF, CR, LF>>)
      headers_str == SubSeq(part, 1, blank_line_pos - 1)
      content == trim_end_matches(SubSeq(part, blank_line_pos + 4, Len(part)),
                                  <<CR, LF>>)
      h == part_header_loop(Lines(headers_str), 1,
             [field_name |-> <<>>, filename |-> None,
              content_type_part |-> Str_text_plain])
  IN  multipart_loop(parts, i + 1,
        IF blank_line_pos = 0 THEN acc
        ELSE IF h.filename # None
        THEN [acc EXCEPT !.files =
                MapInsert(@, h.field_name,
                          [filename |-> h.filename[1],
                           content_type |-> h.content_type_part,
                           data |-> content])]
        ELSE [acc EXCEPT !.fields = MapInsert(@, h.field_name, content)])

\* HttpParser::parse_multipart
parse_multipart(body, boundary, fields, files) ==
  multipart_loop(SplitStr(body, <<"-", "-">> \o boundary), 2,
                 [fields |-> fields, files |-> files])

\* HttpParser::parse_form_data: the fields and the files of a body
parse_form_data(content_type, body) ==
  IF Contains(content_type, Str_urlencoded)
  THEN [fields |-> urlencoded_loop(SplitChar(body, "&"), 1, EmptyMap),
        files |-> EmptyMap]
  ELSE IF Contains(content_type, Str_multipart)
          /\ FindStr(content_type, Str_boundary) # 0
  THEN LET after == SubSeq(content_type,
                           FindStr(content_type, Str_boundary) + 9,
                           Len(content_type))
           semicolon == Find(after, ";")
       IN  parse_multipart(body,
                           IF semicolon # 0 THEN SubSeq(after, 1, semicolon - 1)
                           ELSE after,
                           EmptyMap, EmptyMap)
  ELSE [fields |-> EmptyMap, files |-> EmptyMap]

\* the request line has the three tokens method, path[?query], version
request_line_ok(parts) == Len(parts) >= 3

\* one header line of the loop of HttpParser::parse: `key: value`, both
\* trimmed; a line without a colon is ignored
header_line(acc, line) ==
  LET colon_pos == Find(line, ":")
      key == Trim(SubSeq(line, 1, colon_pos - 1))
      value == Trim(SubSeq(line, colon_pos + 1, Len(line)))
  IN  IF colon_pos = 0 THEN acc
      ELSE [acc EXCEPT
              !.is_chunked = IF ToLower(key) = Str_transfer_encoding
                             THEN Contains(ToLower(value), Str_chunked)
                             ELSE @,
              !.content_type = IF ToLower(key) = Str_content_type
                               THEN value ELSE @,
              !.headers = MapInsert(@, key, value)]

\* the header loop: lines[1..] up to the first empty line; body_start is the
\* (1-based) index of the line after it, and stays at the first line when
\* there is no empty line
RECURSIVE header_loop(_, _, _)
header_loop(lines, i, acc) ==
  IF i > Len(lines) THEN acc
  ELSE IF lines[i] = <<>> THEN [acc EXCEPT !.body_start = i + 1]
  ELSE header_loop(lines, i + 1, header_line(acc, lines[i]))

\* the body: every line from body_start on, joined with LF, then
\* chunk-decoded when Transfer-Encoding is chunked
parse_body(lines, h) ==
  LET raw == IF h.body_start <= Len(lines) THEN JoinFrom(lines, h.body_start)
             ELSE <<>>
  IN  IF h.is_chunked THEN decode_chunked(raw) ELSE raw

\* HttpParser::parse after the split into lines: None, or the request
parse_lines(lines) ==
  IF lines = <<>> THEN None
  ELSE
  LET request_line_parts == split_whitespace(lines[1])
  IN  IF ~request_line_ok(request_line_parts) THEN None
      ELSE
      LET full_path == request_line_parts[2]
          pos == Find(full_path, "?")
          h == header_loop(lines, 2,
                 [headers |-> EmptyMap, body_start |-> 1,
                  is_chunked |-> FALSE, content_type |-> <<>>])
      IN  Some([method |-> request_line_parts[1],
                path |-> IF pos = 0 THEN full_path
                         ELSE SubSeq(full_path, 1, pos - 1),
                query_string |-> IF pos = 0 THEN None
                                 ELSE Some(SubSeq(full_path, pos + 1, Len(full_path))),
                version |-> request_line_parts[3],
                headers |-> h.headers,
                content_type |-> h.content_type,
                query_params |-> IF pos = 0 THEN EmptyMap
                                 ELSE parse_query_string(
                                        SubSeq(full_path, pos + 1, Len(full_path))),
                form_fields |-> parse_form_data(h.content_type, parse_body(lines, h)).fields,
                form_files |-> parse_form_data(h.content_type, parse_body(lines, h)).files,
                body |-> parse_body(lines, h)])

\* a parser that skips a first line it cannot use as a request line
parse_resync(data) ==
  LET lines == Lines(data)
  IN  IF lines # <<>> /\ ~request_line_ok(split_whitespace(lines[1]))
      THEN parse_lines(Tail(lines))
      ELSE parse_lines(lines)

\* HttpParser::parse
parse(data) == parse_lines(Lines(data))

(***************************************************************************)
(* HttpResponse::to_bytes: the body part of the serialization              *)
(***************************************************************************)
chunk_size == 1024

\* a framing that announces a full chunk whatever the length of the data
RECURSIVE encode_chunks_full_size(_, _)
encode_chunks_full_size(body, from) ==
  IF from > Len(body) THEN <<>>
  ELSE LET to == MinOf(Len(body), from + chunk_size - 1)
       IN  ToHex(chunk_size) \o <<CR, LF>> \o SubSeq(body, from, to)
           \o <<CR, LF>> \o encode_chunks_full_size(body, to + 1)

\* slice::chunks(chunk_size) followed by the per-chunk framing
RECURSIVE encode_chunks(_, _)
encode_chunks(body, from) ==
  IF from > Len(body) THEN <<>>
  ELSE LET to == MinOf(Len(body), from + chunk_size - 1)
       IN  ToHex(to - from + 1) \o <<CR, LF>> \o SubSeq(body, from, to)
           \o <<CR, LF>> \o encode_chunks(body, to + 1)

\* the bytes to_bytes appends after the header block
body_bytes(body, is_chunked) ==
  IF is_chunked THEN encode_chunks(body, 1) \o <<"0", CR, LF, CR, LF>>
  ELSE body

(***************************************************************************)
(* Router                                                                  *)
(***************************************************************************)
GET == <<"G","E","T">>
POST == <<"P","O","S","T">>
PUT == <<"P","U","T">>
Str_cgi_bin == <<"/","c","g","i","-","b","i","n","/">>
Str_api == <<"/","a","p","i","/">>
Str_api_users == Str_api \o <<"u","s","e","r","s">>

Route(m, p, h) == [method |-> m, path |-> p, handler |-> h]

\* the route table Server::new registers, in registration order
ServerRoutes ==
  << Route(GET, <<"/">>, "handle_root"),
     Route(GET, <<"/","h","e","a","l","t","h">>, "handle_health"),
     Route(GET, <<"/","i","n","s","p","e","c","t">>, "handle_inspect"),
     Route(GET, <<"/","f","o","r","m","-","t","e","s","t">>, "handle_form_test"),
     Route(POST, <<"/","f","o","r","m","-","t","e","s","t">>, "handle_form_test"),
     Route(GET, Str_api_users, "handle_users"),
     Route(POST, Str_api_users, "handle_users"),
     Route(GET, <<"/","d","o","w","n","l","o","a","d">>, "handle_download"),
     Route(GET, <<"/","l","o","g","i","n">>, "handle_login"),
     Route(GET, <<"/","s","t","a","t","i","c">>, "handle_static"),
     Route(GET, Str_api, "handle_api_catch_all"),
     Route(POST, Str_api, "handle_api_catch_all") >>

\* the index of the first element of a set of route indices, 0 when empty
FirstRoute(idx) == IF idx = {} THEN 0 ELSE SetMin(idx)

\* a single scan that takes the first route matching exactly or by prefix
exact_or_prefix_match(routes, request) ==
  FirstRoute({i \in 1..Len(routes) :
                /\ routes[i].method = request.method
                /\ \/ routes[i].path = request.path
                   \/ /\ routes[i].path # <<"/">>
                      /\ StartsWith(request.path, routes[i].path)})

\* the exact-match scan: the first route with the request's method and path
exact_match(routes, request) ==
  FirstRoute({i \in 1..Len(routes) :
                /\ routes[i].method = request.method
                /\ routes[i].path = request.path})

\* a prefix scan in which the longest matching prefix wins
longest_prefix_match(routes, request) ==
  LET idx == {i \in 1..Len(routes) :
                /\ routes[i].method = request.method
                /\ routes[i].path # <<"/">>
                /\ StartsWith(request.path, routes[i].path)}
  IN  IF idx = {} THEN 0
      ELSE CHOOSE i \in idx :
             \A j \in idx : \/ Len(routes[j].path) < Len(routes[i].path)
                            \/ Len(routes[j].path) = Len(routes[i].path) /\ i <= j

\* a prefix scan that does not leave out the root route
prefix_match_with_root(routes, request) ==
  FirstRoute({i \in 1..Len(routes) :
                /\ routes[i].method = request.method
                /\ StartsWith(request.path, routes[i].path)})

\* the prefix scan: the first route with the request's method whose path is
\* not "/" and is a prefix of the request path
prefix_match(routes, request) ==
  FirstRoute({i \in 1..Len(routes) :
                /\ routes[i].method = request.method
                /\ routes[i].path # <<"/">>
                /\ StartsWith(request.path, routes[i].path)})

\* a router that looks for the CGI prefix only after the route table
handle_routes_first(routes, request) ==
  IF exact_match(routes, request) # 0
  THEN routes[exact_match(routes, request)].handler
  ELSE IF prefix_match(routes, request) # 0
       THEN routes[prefix_match(routes, request)].handler
  ELSE IF StartsWith(request.path, Str_cgi_bin) THEN "handle_cgi"
  ELSE "not_found"

\* a router whose exact scan does not compare the method
handle_any_method(routes, request) ==
  LET by_path == FirstRoute({i \in 1..Len(routes) : routes[i].path = request.path})
  IN  IF StartsWith(request.path, Str_cgi_bin) THEN "handle_cgi"
      ELSE IF by_path # 0 THEN routes[by_path].handler
      ELSE IF prefix_match(routes, request) # 0
           THEN routes[prefix_match(routes, request)].handler
      ELSE "not_found"

\* Router::handle: the handler that produces the response; "handle_cgi" for
\* the CGI bridge, "not_found" for the default 404
handle(routes, request) ==
  IF StartsWith(request.path, Str_cgi_bin) THEN "handle_cgi"
  ELSE IF exact_match(routes, request) # 0
       THEN routes[exact_match(routes, request)].handler
  ELSE IF prefix_match(routes, request) # 0
       THEN routes[prefix_match(routes, request)].handler
  ELSE "not_found"

(***************************************************************************)
(* The reactor: Server::run and the peers it serves.                       *)
(*                                                                         *)
(* A peer connects once, sends the segments of its script in order, and    *)
(* may close (FIN) or reset (RST) at any time.  The kernel queues what a   *)
(* peer has sent until the server reads it.  epoll_wait reports any set    *)
(* of registered descriptors (readiness may be spurious, which is what the *)
(* would-block branches of the code are for).                              *)
(***************************************************************************)
VARIABLES
  pc,           \* where Server::run is: "wait", "events", "dispatch", "returned"
  pending,      \* the events of the current epoll_wait batch not yet processed
  cur,          \* the descriptor whose request is being dispatched
  epoll,        \* the peer descriptors registered with the epoll instance
  connections,  \* Server.connections: descriptor -> Connection
  backlog,      \* the listener's accept queue (peers, oldest first)
  script,       \* per peer: the segments it sends (fixed)
  peers,        \* per peer: its socket as the kernel sees it
  log,          \* per peer: every Router::handle call made for it and what
                \* became of the write (history)
  fatal,        \* why Server::run returned (history)
  pure          \* the input and result of a codec function (codec checks)

vars == <<pc, pending, cur, epoll, connections, backlog, script, peers,
          log, fatal, pure>>
reactor_vars == <<pc, pending, cur, epoll, connections, backlog, script,
                  peers, log, fatal>>

MaxPeers == 2
Peers == 1..MaxPeers
\* descriptors 0-2 are the standard streams, 3 the listener, 4 the epoll
\* instance; an accepted socket gets the lowest free descriptor
ListenerFd == 3
FirstPeerFd == 5
PeerFds == FirstPeerFd..(FirstPeerFd + MaxPeers - 1)
\* the size of the stack buffer handle_client_data reads into
read_buffer_size == 4096
\* config.server.max_events
max_events == 2

RECURSIVE Concat(_)
Concat(segs) == IF segs = <<>> THEN <<>> ELSE Head(segs) \o Concat(Tail(segs))

\* the bytes of peer p the server has read so far (for a peer whose
\* connection is in the table and has not been reset)
Rcvd(p) ==
  LET all == Concat(script[p])
  IN  SubSeq(all, 1, Len(all) - Len(Concat(peers[p].tosend)) - Len(peers[p].sockq))

\* the descriptor of peer p's connection, 0 when it has none
FdOf(p) ==
  LET fds == {f \in DOMAIN connections : connections[f].peer = p}
  IN  IF fds = {} THEN 0 ELSE CHOOSE f \in fds : TRUE

\* peer p's connection is in the table and the peer has not reset it
Reading(p) == FdOf(p) # 0 /\ peers[p].st \in {"open", "closed"}

NoConnections == [f \in {} |-> 0]

\* a peer whose socket the server has closed: nothing is queued or sent any more
Gone == [st |-> "gone", tosend |-> <<>>, sockq |-> <<>>]

InitReactor ==
  /\ pc = "wait"
  /\ pending = {}
  /\ cur = 0
  /\ epoll = {}
  /\ connections = NoConnections
  /\ backlog = <<>>
  /\ log = [p \in Peers |-> <<>>]
  /\ fatal = "none"

(***************************************************************************)
(* The peers and the kernel                                                *)
(***************************************************************************)
PeerConnect(p) ==
  /\ peers[p].st = "idle"
  /\ pc # "returned"
  /\ peers' = [peers EXCEPT ![p].st = "queued"]
  /\ backlog' = Append(backlog, p)
  /\ UNCHANGED <<pc, pending, cur, epoll, connections, script, log, fatal,
                 pure>>

\* bytes sent before the server accepts reach it exactly as bytes sent
\* between the accept and its first read do, so only the latter are modelled
PeerSend(p) ==
  /\ peers[p].st = "open"
  /\ pc # "returned"
  /\ peers[p].tosend # <<>>
  /\ peers' = [peers EXCEPT ![p].tosend = Tail(@),
                            ![p].sockq = @ \o Head(peers[p].tosend)]
  /\ UNCHANGED <<pc, pending, cur, epoll, connections, backlog, script, log, fatal, pure>>

\* the peer closes its end: the server reads what is queued, then 0 bytes
PeerClose(p) ==
  /\ peers[p].st = "open"
  /\ pc # "returned"
  /\ peers' = [peers EXCEPT ![p].st = "closed"]
  /\ UNCHANGED <<pc, pending, cur, epoll, connections, backlog, script, log, fatal, pure>>

\* the peer resets the connection: queued bytes are discarded, reads fail
PeerReset(p) ==
  /\ peers[p].st = "open"
  /\ pc # "returned"
  /\ peers' = [peers EXCEPT ![p].st = "reset", ![p].sockq = <<>>]
  /\ UNCHANGED <<pc, pending, cur, epoll, connections, backlog, script, log, fatal, pure>>

(***************************************************************************)
(* Server::run                                                             *)
(***************************************************************************)
\* the events epoll_wait may report: the listener, and every registered
\* descriptor as readable; ERR/HUP for a connection the peer has reset
Candidates ==
  {[fd |-> ListenerFd, ev |-> "IN"]}
  \cup {[fd |-> f, ev |-> "IN"] : f \in epoll}
  \cup {[fd |-> f, ev |-> "ERRHUP"] :
          f \in {g \in epoll : peers[connections[g].peer].st = "reset"}}

\* epoll_wait returns between 1 and max_events events, one per descriptor
EpollWaitEvents ==
  /\ pc = "wait"
  /\ \E batch \in SUBSET Candidates :
       /\ batch # {}
       /\ Cardinality(batch) <= max_events
       /\ \A a, b \in batch : a.fd = b.fd => a = b
       /\ pending' = batch
  /\ pc' = "events"
  /\ UNCHANGED <<cur, epoll, connections, backlog, script, peers, log, fatal,
                 pure>>

\* epoll_wait times out: num_events = 0, the for loop does nothing
EpollWaitTimeout ==
  /\ pc = "wait"
  /\ UNCHANGED vars

\* epoll_wait fails (num_events < 0): run returns the error
EpollWaitFail ==
  /\ pc = "wait"
  /\ pc' = "returned"
  /\ fatal' = "epoll_wait"
  /\ UNCHANGED <<pending, cur, epoll, connections, backlog, script, peers,
                 log, pure>>

\* the for loop goes on to the next event, or back to epoll_wait
NextEvent(e) ==
  /\ pending' = pending \ {e}
  /\ pc' = IF pending \ {e} = {} THEN "wait" ELSE "events"

\* the descriptor accept returns: the lowest one not in use
NewFd == SetMin(PeerFds \ DOMAIN connections)

\* connections.insert(fd, Connection { stream, buffer, request: None })
table_insert(conns, fd, p) ==
  [f \in DOMAIN conns \cup {fd} |->
     IF f = fd THEN [buffer |-> <<>>, request |-> None, peer |-> p]
     ELSE conns[f]]

\* a removal that leaves the entry in the table
table_remove_keep(conns, fd) == conns

\* a removal that empties the table
table_remove_all(conns, fd) == NoConnections

\* connections.remove(&fd)
table_remove(conns, fd) == [f \in DOMAIN conns \ {fd} |-> conns[f]]

\* a removal that does nothing
remove_nothing(fd) == UNCHANGED <<epoll, connections, peers>>

\* Server::remove_connection: EPOLL_CTL_DEL, then the entry is dropped (which
\* closes the socket)
remove_connection(fd) ==
  /\ epoll' = epoll \ {fd}
  /\ connections' = table_remove(connections, fd)
  /\ peers' = [peers EXCEPT ![connections[fd].peer] = Gone]

\* accept_connection, Ok branch: set_nonblocking, EPOLL_CTL_ADD and the
\* insertion all succeed
AcceptOk(e) ==
  /\ pc = "events" /\ e \in pending /\ e.fd = ListenerFd
  /\ backlog # <<>>
  /\ epoll' = epoll \cup {NewFd}
  /\ connections' = table_insert(connections, NewFd, Head(backlog))
  /\ peers' = [peers EXCEPT ![Head(backlog)].st = "open"]
  /\ backlog' = Tail(backlog)
  /\ NextEvent(e)
  /\ UNCHANGED <<cur, script, log, fatal, pure>>

\* accept_connection: set_nonblocking or EPOLL_CTL_ADD fails; the `?` in
\* accept_connection and the one in run carry the error out of run; the
\* accepted stream is dropped
AcceptSetupFail(e, what) ==
  /\ pc = "events" /\ e \in pending /\ e.fd = ListenerFd
  /\ backlog # <<>>
  /\ backlog' = Tail(backlog)
  /\ peers' = [peers EXCEPT ![Head(backlog)] = Gone]
  /\ pc' = "returned"
  /\ fatal' = what
  /\ UNCHANGED <<pending, cur, epoll, connections, script, log, pure>>

AcceptNonblockingFail(e) == AcceptSetupFail(e, "set_nonblocking")
AcceptEpollAddFail(e) == AcceptSetupFail(e, "epoll_ctl_add")

\* accept_connection: accept returns WouldBlock
AcceptWouldBlock(e) ==
  /\ pc = "events" /\ e \in pending /\ e.fd = ListenerFd
  /\ backlog = <<>>
  /\ NextEvent(e)
  /\ UNCHANGED <<cur, epoll, connections, backlog, script, peers, log, fatal,
                 pure>>

\* accept_connection: accept fails otherwise; the error is printed and
\* Ok(()) returned.  The queued connection is lost (ECONNABORTED) or stays
\* queued (EMFILE)
AcceptError(e) ==
  /\ pc = "events" /\ e \in pending /\ e.fd = ListenerFd
  /\ backlog # <<>>
  /\ \/ /\ backlog' = Tail(backlog)
        /\ peers' = [peers EXCEPT ![Head(backlog)] = Gone]
     \/ UNCHANGED <<backlog, peers>>
  /\ NextEvent(e)
  /\ UNCHANGED <<cur, epoll, connections, script, log, fatal, pure>>

\* run: an ERR or HUP event removes the connection
EventErrHup(e) ==
  /\ pc = "events" /\ e \in pending /\ e.fd # ListenerFd
  /\ e.ev = "ERRHUP"
  /\ remove_connection(e.fd)
  /\ NextEvent(e)
  /\ UNCHANGED <<cur, backlog, script, log, fatal, pure>>

\* an IN event on a peer descriptor: handle_client_data is called
Readable(e) ==
  /\ pc = "events" /\ e \in pending /\ e.fd # ListenerFd
  /\ e.ev = "IN"
  /\ e.fd \in DOMAIN connections

\* handle_client_data: read returns 0, the error makes run remove the
\* connection
ReadZero(e) ==
  /\ Readable(e)
  /\ peers[connections[e.fd].peer].st = "closed"
  /\ peers[connections[e.fd].peer].sockq = <<>>
  /\ remove_connection(e.fd)
  /\ NextEvent(e)
  /\ UNCHANGED <<cur, backlog, script, log, fatal, pure>>

\* handle_client_data: read fails with an error other than WouldBlock
ReadError(e) ==
  /\ Readable(e)
  /\ peers[connections[e.fd].peer].st = "reset"
  /\ remove_connection(e.fd)
  /\ NextEvent(e)
  /\ UNCHANGED <<cur, backlog, script, log, fatal, pure>>

\* handle_client_data: read returns WouldBlock; Ok(()) and nothing changes
ReadWouldBlock(e) ==
  /\ Readable(e)
  /\ peers[connections[e.fd].peer].st = "open"
  /\ peers[connections[e.fd].peer].sockq = <<>>
  /\ IF connections[e.fd].request # None
     THEN pc' = "dispatch" /\ cur' = e.fd /\ pending' = pending \ {e}
     ELSE NextEvent(e) /\ cur' = cur
  /\ UNCHANGED <<epoll, connections, backlog, script, peers, log, fatal,
                 pure>>

\* the request slot after n bytes were appended to the buffer: parse runs
\* only when the slot is empty
try_parse(request, buffer) == IF request = None THEN parse(buffer) ELSE request

\* handle_client_data: read returns n > 0 bytes, which are appended to the
\* buffer; then run dispatches if the request slot is filled
ReadData(e) ==
  /\ Readable(e)
  /\ LET fd == e.fd
         p == connections[fd].peer
         n == MinOf(Len(peers[p].sockq), read_buffer_size)
         buffer == connections[fd].buffer \o SubSeq(peers[p].sockq, 1, n)
         request == try_parse(connections[fd].request, buffer)
     IN  /\ peers[p].st \in {"open", "closed"}
         /\ n > 0
         /\ peers' = [peers EXCEPT
                        ![p].sockq = SubSeq(@, n + 1, Len(@))]
         /\ connections' = [connections EXCEPT ![fd].buffer = buffer,
                                               ![fd].request = request]
         /\ IF request # None
            THEN pc' = "dispatch" /\ cur' = fd /\ pending' = pending \ {e}
            ELSE NextEvent(e) /\ cur' = cur
  /\ UNCHANGED <<epoll, backlog, script, log, fatal, pure>>

\* a loop that writes the response to the stream of the lowest descriptor
\* in the table
RoutedToLowest(fd, wrote) ==
  /\ pc \in {"dispatch", "cgi"} /\ cur = fd /\ fd \in DOMAIN connections
  /\ connections[fd].request # None
  /\ log' = [log EXCEPT ![connections[SetMin(DOMAIN connections)].peer] =
               Append(@, [req |-> connections[fd].request[1],
                          handler |-> handle(ServerRoutes, connections[fd].request[1]),
                          wrote |-> wrote, fd |-> SetMin(DOMAIN connections)])]
  /\ cur' = 0
  /\ pc' = IF pending = {} THEN "wait" ELSE "events"

\* run, after handle_client_data left a request in the slot: the request is
\* routed and the response written to the stream of the entry (the log of
\* its peer, with the descriptor); `wrote` is how the write ended.  For a
\* CGI request this is when execute returns: at once when the script is
\* missing or cannot be spawned (pc = "dispatch"), and when the subprocess
\* has exited otherwise (pc = "cgi")
Routed(fd, wrote) ==
  /\ pc \in {"dispatch", "cgi"} /\ cur = fd /\ fd \in DOMAIN connections
  /\ connections[fd].request # None
  /\ log' = [log EXCEPT ![connections[fd].peer] =
               Append(@, [req |-> connections[fd].request[1],
                          handler |-> handle(ServerRoutes, connections[fd].request[1]),
                          wrote |-> wrote, fd |-> fd])]
  /\ cur' = 0
  /\ pc' = IF pending = {} THEN "wait" ELSE "events"

\* a reset that clears the buffer and leaves the answered request in the slot
reset_buffer_only(c) == [c EXCEPT !.buffer = <<>>]

\* a reset that empties the slot and leaves the bytes in the buffer
reset_slot_only(c) == [c EXCEPT !.request = None]

\* the slot and the buffer after a successful write and flush
reset_connection(c) == [c EXCEPT !.request = None, !.buffer = <<>>]

\* write_all and flush succeed: the connection is reset for the next request
WriteOk(fd) ==
  /\ Routed(fd, "ok")
  /\ connections' = [connections EXCEPT ![fd] = reset_connection(@)]
  /\ UNCHANGED <<pending, epoll, backlog, script, peers, fatal, pure>>

\* write_all fails: the connection is removed
WriteFail(fd) ==
  /\ Routed(fd, "write_err")
  /\ remove_connection(fd)
  /\ UNCHANGED <<pending, backlog, script, fatal, pure>>

\* write_all succeeds and flush fails: the connection is removed
FlushFail(fd) ==
  /\ Routed(fd, "flush_err")
  /\ remove_connection(fd)
  /\ UNCHANGED <<pending, backlog, script, fatal, pure>>

\* a CGI bridge that starts the script and lets the loop go on without
\* waiting for it
CgiSpawnDetached(fd) ==
  /\ pc = "dispatch" /\ cur = fd /\ fd \in DOMAIN connections
  /\ connections[fd].request # None
  /\ handle(ServerRoutes, connections[fd].request[1]) = "handle_cgi"
  /\ connections' = [connections EXCEPT ![fd] = reset_connection(@)]
  /\ cur' = 0
  /\ pc' = IF pending = {} THEN "wait" ELSE "events"
  /\ UNCHANGED <<pending, epoll, backlog, script, peers, log, fatal, pure>>

\* run calls router.handle for a CGI request, and CGIExecutor::execute has
\* spawned the script: the thread of the loop is in wait_with_output until
\* the subprocess exits
CgiSpawn(fd) ==
  /\ pc = "dispatch" /\ cur = fd /\ fd \in DOMAIN connections
  /\ connections[fd].request # None
  /\ handle(ServerRoutes, connections[fd].request[1]) = "handle_cgi"
  /\ pc' = "cgi"
  /\ UNCHANGED <<pending, cur, epoll, connections, backlog, script, peers,
                 log, fatal, pure>>

(***************************************************************************)
(* The inputs: what the peers send                                         *)
(***************************************************************************)
Str_HTTP11 == <<"H","T","T","P","/","1",".","1">>
CRLF == <<CR, LF>>
Str_Content_Length == <<"C","o","n","t","e","n","t","-","L","e","n","g","t","h">>

\* GET / HTTP/1.1 CRLF CRLF
Req_root == GET \o <<" ", "/", " ">> \o Str_HTTP11 \o CRLF \o CRLF
\* POST / HTTP/1.1 CRLF Content-Length: 2 CRLF CRLF ab
Req_post == POST \o <<" ", "/", " ">> \o Str_HTTP11 \o CRLF
            \o Str_Content_Length \o <<":", " ", "2">> \o CRLF \o CRLF
            \o <<"a", "b">>
\* a terminated request line with two tokens
Bad_line == GET \o <<" ", "/">> \o CRLF

\* a message sent whole or cut in two at any point
Splits(m) ==
  {<<m>>} \cup {<<SubSeq(m, 1, k), SubSeq(m, k + 1, Len(m))>> : k \in 1..(Len(m) - 1)}

\* one peer, which sends one request cut anywhere, a request with a
\* declared body cut before and inside the body, a malformed request line
\* followed by a request, or two requests in one segment or in two
ScriptsSplit ==
  Splits(Req_root)
  \cup {<<Req_post>>,
        <<SubSeq(Req_post, 1, Len(Req_post) - 2), <<"a", "b">>>>,
        <<SubSeq(Req_post, 1, Len(Req_post) - 1), <<"b">>>>}
  \cup {<<Bad_line, Req_root>>, <<Req_root \o Req_root>>, <<Req_root, Req_root>>}

\* several peers: the first sends one request in two segments, the second
\* one request in one segment, any further peer connects and sends nothing
Scripts(p) ==
  IF p = 1 THEN {<<SubSeq(Req_root, 1, 5), SubSeq(Req_root, 6, Len(Req_root))>>}
  ELSE IF p = 2 THEN {<<Req_root>>}
  ELSE {<<>>}

Init ==
  /\ InitReactor
  /\ script \in {f \in [Peers -> UNION {Scripts(p) : p \in Peers}] :
                   \A p \in Peers : f[p] \in Scripts(p)}
  /\ peers = [p \in Peers |-> [st |-> "idle", tosend |-> script[p], sockq |-> <<>>]]
  /\ pure = None

\* the first peer alone
InitSplit ==
  /\ InitReactor
  /\ script \in {f \in [Peers -> ScriptsSplit \cup {<<>>}] :
                   /\ f[1] \in ScriptsSplit
                   /\ \A p \in Peers \ {1} : f[p] = <<>>}
  /\ peers = [p \in Peers |->
                IF p = 1 THEN [st |-> "idle", tosend |-> script[p], sockq |-> <<>>]
                ELSE Gone]
  /\ pure = None

Next ==
  \/ \E p \in Peers : PeerConnect(p)
  \/ \E p \in Peers : PeerSend(p)
  \/ \E p \in Peers : PeerClose(p)
  \/ \E p \in Peers : PeerReset(p)
  \/ EpollWaitEvents
  \/ EpollWaitTimeout
  \/ EpollWaitFail
  \/ \E e \in pending : AcceptOk(e)
  \/ \E e \in pending : AcceptNonblockingFail(e)
  \/ \E e \in pending : AcceptEpollAddFail(e)
  \/ \E e \in pending : AcceptWouldBlock(e)
  \/ \E e \in pending : AcceptError(e)
  \/ \E e \in pending : EventErrHup(e)
  \/ \E e \in pending : ReadZero(e)
  \/ \E e \in pending : ReadError(e)
  \/ \E e \in pending : ReadWouldBlock(e)
  \/ \E e \in pending : ReadData(e)
  \/ \E fd \in PeerFds : WriteOk(fd)
  \/ \E fd \in PeerFds : WriteFail(fd)
  \/ \E fd \in PeerFds : FlushFail(fd)

Spec == Init /\ [][Next]_vars
SpecSplit == InitSplit /\ [][Next]_vars

\* GET /cgi-bin/x HTTP/1.1 CRLF CRLF
Req_cgi == GET \o <<" ">> \o Str_cgi_bin \o <<"x", " ">> \o Str_HTTP11 \o CRLF \o CRLF

\* several peers: the first sends a CGI request, the second a request for
\* /, any further peer connects and sends nothing
ScriptsCgi(p) ==
  IF p = 1 THEN <<Req_cgi>> ELSE IF p = 2 THEN <<Req_root>> ELSE <<>>

InitCgi ==
  /\ InitReactor
  /\ script = [p \in Peers |-> ScriptsCgi(p)]
  /\ peers = [p \in Peers |-> [st |-> "idle", tosend |-> script[p], sockq |-> <<>>]]
  /\ pure = None

\* the server with CGI scripts: nothing makes the subprocess exit, so the
\* loop may stay in wait_with_output for ever
NextCgi ==
  \/ Next
  \/ \E fd \in PeerFds : CgiSpawn(fd)

SpecCgi == InitCgi /\ [][NextCgi]_vars

(***************************************************************************)
(* Properties of the reactor                                               *)
(***************************************************************************)
\* the buffer holds the blank line that ends a header block
HasBlankLine(b) == Contains(b, CRLF \o CRLF)

\* peer p sends one valid request in two segments, and the blank line that
\* ends its headers is complete only with the second one
SendsInTwoReads(p) ==
  /\ Len(script[p]) = 2
  /\ ~HasBlankLine(script[p][1])
  /\ HasBlankLine(Concat(script[p]))
  /\ FindStr(Concat(script[p]), CRLF \o CRLF) + 3 = Len(Concat(script[p]))

\* C1: when a request arrives in two reads and the blank line ending its
\* headers is only there after the second, then at every split point: after
\* the first read no request is parsed, nothing is dispatched and nothing is
\* written; after the second read the complete request has been produced and
\* Router::handle was invoked exactly once, for that request.
C1_PartialRead ==
  \A p \in Peers :
    (SendsInTwoReads(p) /\ Reading(p)) =>
      /\ Rcvd(p) = script[p][1] =>
           (connections[FdOf(p)].request = None /\ log[p] = <<>>)
      /\ (Rcvd(p) = Concat(script[p]) /\ pc = "wait") =>
           (/\ Len(log[p]) = 1
            /\ Some(log[p][1].req) = parse(Concat(script[p])))

\* the split points at which the code does wait for the second read
C1_SomeSplitWaits ==
  \E p \in Peers :
    /\ SendsInTwoReads(p) /\ Reading(p) /\ pc = "wait"
    /\ Rcvd(p) = Concat(script[p])
    /\ Len(log[p]) = 1
    /\ Some(log[p][1].req) = parse(Concat(script[p]))

DecDigits == <<"0","1","2","3","4","5","6","7","8","9">>
RECURSIVE DecValue(_)
DecValue(s) ==
  IF s = <<>> THEN 0
  ELSE DecValue(SubSeq(s, 1, Len(s) - 1)) * 10
       + (CHOOSE k \in 1..10 : DecDigits[k] = s[Len(s)]) - 1

\* the body length a request declares in its Content-Length header (0 when
\* it has none)
DeclaredLength(r) ==
  IF Str_Content_Length \in DOMAIN r.headers
  THEN DecValue(r.headers[Str_Content_Length])
  ELSE 0

\* C2: no request is produced, and nothing is dispatched, while the buffer
\* holds fewer body bytes than the Content-Length header declares.
C2_WaitsForDeclaredBody ==
  /\ \A fd \in DOMAIN connections :
       connections[fd].request # None =>
         Len(connections[fd].request[1].body)
           >= DeclaredLength(connections[fd].request[1])
  /\ \A p \in Peers : \A i \in 1..Len(log[p]) :
       Len(log[p][i].req.body) >= DeclaredLength(log[p][i].req)

\* C3: a peer descriptor is registered with the epoll instance if and only
\* if the connection table holds an entry for it; accept_connection adds
\* both, remove_connection removes both, and no step changes one alone.
C3_RegisteredIffInTable == epoll = DOMAIN connections

\* the loop is about to wait, one connection is in the table and another
\* one has been accepted and removed again
C3_Witness ==
  /\ pc = "wait"
  /\ Cardinality(DOMAIN connections) = 1
  /\ \E p \in Peers : peers[p].st = "gone" /\ log[p] # <<>>

\* C4: no failure that concerns a single connection makes Server::run
\* return: run returns only when epoll_wait itself fails.
C4_ConnectionFailureNotFatal == pc = "returned" => fatal = "epoll_wait"

\* the request slots that hold a request
FilledSlots == {fd \in DOMAIN connections : connections[fd].request # None}

\* what one step does with a request in the slot of descriptor fd: nothing,
\* or it is routed (one more entry in the log of its peer, for this very
\* request) and the slot is emptied or the connection removed
C5_RoutedOnce(fd) ==
  LET p == connections[fd].peer
  IN  \/ /\ log' = log
         /\ fd \in DOMAIN connections'
         /\ connections'[fd].request = connections[fd].request
      \/ /\ log' = [log EXCEPT ![p] = Append(@, log'[p][Len(log'[p])])]
         /\ Len(log'[p]) = Len(log[p]) + 1
         /\ Some(log'[p][Len(log'[p])].req) = connections[fd].request
         /\ fd \in DOMAIN connections' => connections'[fd].request = None

\* C5: every request parse produces is routed exactly once, in the
\* event-loop pass in which it was parsed (a filled slot belongs to the
\* descriptor being dispatched, and the loop does not reach epoll_wait with
\* a filled slot); nothing is routed that is not in a slot.
C5_DispatchedInSamePass ==
  /\ [](FilledSlots \subseteq (IF pc = "dispatch" THEN {cur} ELSE {}))
  /\ [][/\ \A fd \in FilledSlots : C5_RoutedOnce(fd)
        /\ FilledSlots = {} => log' = log]_vars

\* the loop is back at epoll_wait after answering a request on a connection
\* that is still in the table
C5_Witness ==
  /\ pc = "wait"
  /\ \E p \in Peers : log[p] # <<>> /\ FdOf(p) # 0

\* peer p sends two complete requests back to back on one connection
SendsTwoRequests(p) == Concat(script[p]) = Req_root \o Req_root

\* C6: after a response has been written the connection stays in the table
\* and every further complete request of the peer, including one that
\* arrived in the same read as the one just answered, is parsed and
\* answered, in order: once the server has read two back-to-back requests
\* and is waiting again, both have been routed, each as sent.
C6_KeepAliveAnswersAll ==
  \A p \in Peers :
    (/\ SendsTwoRequests(p) /\ Reading(p)
     /\ Rcvd(p) = Concat(script[p]) /\ pc = "wait") =>
      /\ Len(log[p]) = 2
      /\ \A i \in 1..2 : Some(log[p][i].req) = parse(Req_root)

\* the two requests answered when each arrives in a read of its own
C6_AnsweredWhenReadApart ==
  \E p \in Peers :
    /\ SendsTwoRequests(p) /\ Reading(p)
    /\ Rcvd(p) = Concat(script[p]) /\ pc = "wait"
    /\ Len(log[p]) = 2

\* what one step does for the event e it consumes on a connection whose
\* peer is p: when the read returns 0 (peer closed, nothing queued), fails
\* (peer reset) or the event is ERR/HUP, the descriptor leaves the epoll set
\* and the table and nothing is dispatched; when the read would block,
\* the table and the epoll set stay as they are
C7_EventOutcome(e) ==
  LET p == connections[e.fd].peer
      failed == \/ e.ev = "ERRHUP"
                \/ peers[p].st = "reset"
                \/ peers[p].st = "closed" /\ peers[p].sockq = <<>>
      wouldblock == /\ e.ev = "IN" /\ peers[p].st = "open"
                    /\ peers[p].sockq = <<>>
  IN  /\ failed => /\ e.fd \notin epoll'
                   /\ e.fd \notin DOMAIN connections'
                   /\ log' = log
                   /\ pc' # "dispatch"
      /\ wouldblock => (connections' = connections /\ epoll' = epoll)

\* C7: a read of 0 bytes, a read error, a failed write or flush, and an
\* ERR/HUP event each remove the connection from the epoll set and from the
\* table in the same pass, and nothing is dispatched for its peer
\* afterwards; a read that would block leaves the entry, its buffer and its
\* slot unchanged.
C7_FailureRemoves ==
  [][/\ \A e \in pending :
          (e \notin pending' /\ e.fd \in DOMAIN connections) =>
            C7_EventOutcome(e)
     /\ \A p \in Peers :
          (/\ Len(log'[p]) > Len(log[p])
           /\ log'[p][Len(log'[p])].wrote # "ok") =>
            (cur \notin epoll' /\ cur \notin DOMAIN connections')
     /\ \A p \in Peers :
          peers[p].st = "gone" =>
            (/\ log'[p] = log[p] /\ peers'[p].st = "gone"
             /\ \A f \in DOMAIN connections' : connections'[f].peer # p)
    ]_vars

\* one connection was removed after a failed write, and the event being
\* processed is an ERR/HUP on another connection that is in the table
C7_Witness ==
  /\ pc = "events"
  /\ \E p \in Peers :
       /\ peers[p].st = "gone" /\ log[p] # <<>>
       /\ log[p][Len(log[p])].wrote = "write_err"
  /\ \E e \in pending : e.ev = "ERRHUP" /\ e.fd \in DOMAIN connections

\* the buffer begins with a terminated line of fewer than three tokens
Stuck(b) ==
  /\ Contains(b, <<LF>>)
  /\ ~request_line_ok(split_whitespace(Lines(b)[1]))

\* C8: once the buffer of a connection begins with a terminated first line
\* of fewer than three whitespace-separated tokens, nothing is ever routed
\* or written for that connection, whatever arrives later; the connection
\* stays in the table, reading, with the same unusable start of buffer,
\* until the peer closes or resets it.
C8_MalformedLineNeverAnswered ==
  [][\A fd \in DOMAIN connections :
       Stuck(connections[fd].buffer) =>
         LET p == connections[fd].peer
         IN  /\ log'[p] = log[p]
             /\ ~(pc' = "dispatch" /\ cur' = fd)
             /\ \/ /\ fd \in DOMAIN connections'
                   /\ connections'[fd].peer = p
                   /\ connections'[fd].request = None
                   /\ Stuck(connections'[fd].buffer)
                   /\ fd \in epoll'
                \/ /\ fd \notin DOMAIN connections'
                   /\ peers[p].st \in {"closed", "reset"}
    ]_vars

\* a complete request has arrived behind the malformed line and the server
\* waits again without having answered anything
C8_Witness ==
  /\ pc = "wait"
  /\ \E fd \in DOMAIN connections :
       /\ connections[fd].buffer = Bad_line \o Req_root
       /\ connections[fd].request = None
       /\ log[connections[fd].peer] = <<>>

(***************************************************************************)
(* HttpResponse                                                            *)
(***************************************************************************)
Str_Content_Type == <<"C","o","n","t","e","n","t","-","T","y","p","e">>
Str_text_html == <<"t","e","x","t","/","h","t","m","l">>
Str_Not_Found == <<"N","o","t"," ","F","o","u","n","d">>
Str_Transfer_Encoding ==
  <<"T","r","a","n","s","f","e","r","-","E","n","c","o","d","i","n","g">>
Str_Set_Cookie == <<"S","e","t","-","C","o","o","k","i","e">>

\* usize::to_string
RECURSIVE to_string(_)
to_string(n) ==
  IF n < 10 THEN <<DecDigits[n + 1]>>
  ELSE Append(to_string(n \div 10), DecDigits[(n % 10) + 1])

\* HttpResponse::new
HttpResponse_new(status, status_text, body) ==
  [status |-> status,
   status_text |-> status_text,
   headers |-> MapInsert(MapInsert(EmptyMap, Str_Content_Type, Str_text_html),
                         Str_Content_Length, to_string(Len(body))),
   body |-> body,
   is_chunked |-> FALSE]

\* ErrorPages::not_found(): the page, of which the model keeps the heading
not_found == <<"<","h","1",">","4","0","4","<","/","h","1",">">>

\* the last statement of Router::handle: the default 404 response
default_response == HttpResponse_new(404, Str_Not_Found, not_found)

(***************************************************************************)
(* ResponseBuilder                                                         *)
(***************************************************************************)
Str_OK == <<"O","K">>
Str_chunked_value == <<"c","h","u","n","k","e","d">>
Str_Max_Age == <<";"," ","M","a","x","-","A","g","e","=">>
Str_Path == <<";"," ","P","a","t","h","=">>
Str_HttpOnly == <<";"," ","H","t","t","p","O","n","l","y">>
Str_octet_stream == <<"a","p","p","l","i","c","a","t","i","o","n","/","o","c","t","e","t","-","s","t","r","e","a","m">>

\* HashMap::remove
MapRemove(m, k) == [x \in DOMAIN m \ {k} |-> m[x]]

\* str::ends_with
EndsWith(s, suf) ==
  Len(suf) <= Len(s) /\ SubSeq(s, Len(s) - Len(suf) + 1, Len(s)) = suf

\* ResponseBuilder::new
builder_new ==
  [status |-> 200, status_text |-> Str_OK, headers |-> EmptyMap,
   body |-> <<>>, cookies |-> <<>>, is_chunked |-> FALSE]

\* ResponseBuilder::status
builder_status(self, status, status_text) ==
  [self EXCEPT !.status = status, !.status_text = status_text]

\* ResponseBuilder::header
builder_header(self, key, value) ==
  [self EXCEPT !.headers = MapInsert(@, key, value)]

\* ResponseBuilder::content_type
builder_content_type(self, content_type) ==
  [self EXCEPT !.headers = MapInsert(@, Str_Content_Type, content_type)]

\* ResponseBuilder::body_text
builder_body_text(self, body) == [self EXCEPT !.body = body]

\* ResponseBuilder::body_bytes
builder_body_bytes(self, body) == [self EXCEPT !.body = body]

\* ResponseBuilder::cookie: the pair is kept for build
builder_cookie(self, name, value) ==
  [self EXCEPT !.cookies = Append(@, <<name, value>>)]

\* ResponseBuilder::cookie_with_options: the Set-Cookie header is written
\* at once; max_age is an Option
builder_cookie_with_options(self, name, value, max_age, path, http_only) ==
  LET cookie_str ==
        name \o <<"=">> \o value
        \o (IF max_age = None THEN <<>> ELSE Str_Max_Age \o to_string(max_age[1]))
        \o Str_Path \o path
        \o (IF http_only THEN Str_HttpOnly ELSE <<>>)
  IN  [self EXCEPT !.headers = MapInsert(@, Str_Set_Cookie, cookie_str)]

\* ResponseBuilder::chunked
builder_chunked(self, enable) ==
  [self EXCEPT
     !.is_chunked = enable,
     !.headers = IF enable
                 THEN MapRemove(MapInsert(@, Str_Transfer_Encoding, Str_chunked_value),
                                Str_Content_Length)
                 ELSE @]

\* the extension table of ResponseBuilder::get_content_type, in the order
\* of its tests (.jpg and .jpeg share a branch)
ContentTypes ==
  <<<<<<".","h","t","m","l">>,
      <<"t","e","x","t","/","h","t","m","l">>>>,
    <<<<".","c","s","s">>,
      <<"t","e","x","t","/","c","s","s">>>>,
    <<<<".","j","s">>,
      <<"a","p","p","l","i","c","a","t","i","o","n","/","j","a","v","a","s","c","r","i","p","t">>>>,
    <<<<".","j","s","o","n">>,
      <<"a","p","p","l","i","c","a","t","i","o","n","/","j","s","o","n">>>>,
    <<<<".","p","n","g">>,
      <<"i","m","a","g","e","/","p","n","g">>>>,
    <<<<".","j","p","g">>,
      <<"i","m","a","g","e","/","j","p","e","g">>>>,
    <<<<".","j","p","e","g">>,
      <<"i","m","a","g","e","/","j","p","e","g">>>>,
    <<<<".","g","i","f">>,
      <<"i","m","a","g","e","/","g","i","f">>>>,
    <<<<".","s","v","g">>,
      <<"i","m","a","g","e","/","s","v","g","+","x","m","l">>>>,
    <<<<".","p","d","f">>,
      <<"a","p","p","l","i","c","a","t","i","o","n","/","p","d","f">>>>,
    <<<<".","t","x","t">>,
      <<"t","e","x","t","/","p","l","a","i","n">>>>,
    <<<<".","x","m","l">>,
      <<"a","p","p","l","i","c","a","t","i","o","n","/","x","m","l">>>>,
    <<<<".","w","o","f","f">>,
      <<"f","o","n","t","/","w","o","f","f">>>>,
    <<<<".","w","o","f","f","2">>,
      <<"f","o","n","t","/","w","o","f","f","2">>>>>>

\* ResponseBuilder::get_content_type
get_content_type(path) ==
  LET hits == {k \in 1..Len(ContentTypes) : EndsWith(path, ContentTypes[k][1])}
  IN  IF hits = {} THEN Str_octet_stream ELSE ContentTypes[SetMin(hits)][2]

\* a file() that goes on with an empty body when the file cannot be read
builder_file_lenient(self, path, files) ==
  IF path \notin DOMAIN files THEN Some(self)
  ELSE Some([self EXCEPT
               !.body = files[path],
               !.headers = MapInsert(@, Str_Content_Type, get_content_type(path))])

\* ResponseBuilder::file: std::fs::read fails (None) or gives the bytes of
\* the file, which become the body; files maps the readable paths to their
\* contents
builder_file(self, path, files) ==
  IF path \notin DOMAIN files THEN None
  ELSE Some([self EXCEPT
               !.body = files[path],
               !.headers = MapInsert(@, Str_Content_Type, get_content_type(path))])

\* the loop of build over the cookies added with cookie()
RECURSIVE build_cookies(_, _, _)
build_cookies(headers, cookies, i) ==
  IF i > Len(cookies) THEN headers
  ELSE build_cookies(
         MapInsert(headers, Str_Set_Cookie, cookies[i][1] \o <<"=">> \o cookies[i][2]),
         cookies, i + 1)

\* ResponseBuilder::build
builder_build(self) ==
  LET with_length ==
        IF ~self.is_chunked /\ Str_Content_Length \notin DOMAIN self.headers
        THEN MapInsert(self.headers, Str_Content_Length, to_string(Len(self.body)))
        ELSE self.headers
  IN  [status |-> self.status,
       status_text |-> self.status_text,
       headers |-> build_cookies(with_length, self.cookies, 1),
       body |-> self.body,
       is_chunked |-> self.is_chunked]

(***************************************************************************)
(* CGIExecutor and handle_cgi                                              *)
(***************************************************************************)
Str_Status == <<"S","t","a","t","u","s",":">>
Str_Status_200_OK == <<"S","t","a","t","u","s",":"," ","2","0","0"," ","O","K">>
Str_cgi_dir == <<"c","g","i","-","b","i","n","/">>
Str_CGI_not_found == <<"C","G","I"," ","s","c","r","i","p","t"," ","n","o","t"," ","f","o","u","n","d">>
Str_Internal_Server_Error == <<"I","n","t","e","r","n","a","l"," ","S","e","r","v","e","r"," ","E","r","r","o","r">>
Str_text_html_utf8 == <<"t","e","x","t","/","h","t","m","l",";"," ","c","h","a","r","s","e","t","=","u","t","f","-","8">>
u16_MAX == 65535
Str_chmod == <<"c","h","m","o","d">>
Str_HTTP_ == <<"H","T","T","P","_">>
Str_REQUEST_METHOD == <<"R","E","Q","U","E","S","T","_","M","E","T","H","O","D">>
Str_SCRIPT_NAME == <<"S","C","R","I","P","T","_","N","A","M","E">>
Str_PATH_INFO == <<"P","A","T","H","_","I","N","F","O">>
Str_QUERY_STRING == <<"Q","U","E","R","Y","_","S","T","R","I","N","G">>
Str_CONTENT_LENGTH == <<"C","O","N","T","E","N","T","_","L","E","N","G","T","H">>
Str_CONTENT_TYPE == <<"C","O","N","T","E","N","T","_","T","Y","P","E">>
Str_SERVER_NAME == <<"S","E","R","V","E","R","_","N","A","M","E">>
Str_localhost == <<"l","o","c","a","l","h","o","s","t">>
Str_SERVER_PORT == <<"S","E","R","V","E","R","_","P","O","R","T">>
Str_8000 == <<"8","0","0","0">>
Str_SERVER_PROTOCOL == <<"S","E","R","V","E","R","_","P","R","O","T","O","C","O","L">>
Str_SERVER_SOFTWARE == <<"S","E","R","V","E","R","_","S","O","F","T","W","A","R","E">>
Str_server_software == <<"l","o","c","a","l","h","o","s","t","-","h","t","t","p","-","s","e","r","v","e","r","/","1",".","0">>
Str_REMOTE_ADDR == <<"R","E","M","O","T","E","_","A","D","D","R">>
Str_REMOTE_HOST == <<"R","E","M","O","T","E","_","H","O","S","T">>
Str_GATEWAY_INTERFACE == <<"G","A","T","E","W","A","Y","_","I","N","T","E","R","F","A","C","E">>
Str_CGI11 == <<"C","G","I","/","1",".","1">>
Str_PATH == <<"P","A","T","H">>
Str_HOME == <<"H","O","M","E">>
Str_USER == <<"U","S","E","R">>
Str_client_ip == <<"1","2","7",".","0",".","0",".","1">>

\* str::parse::<u16>: an optional `+`, then one or more decimal digits whose
\* value fits; None for anything else
RECURSIVE parse_digits(_, _, _)
parse_digits(s, i, acc) ==
  IF i > Len(s) THEN acc
  ELSE parse_digits(s, i + 1,
         MinOf(u16_MAX + 1,
               acc * 10 + (CHOOSE k \in 1..10 : DecDigits[k] = s[i]) - 1))
parse_u16(s) ==
  LET d == IF s # <<>> /\ s[1] = "+" THEN Tail(s) ELSE s
  IN  IF d = <<>> \/ \E i \in 1..Len(d) : \A k \in 1..10 : DecDigits[k] # d[i]
      THEN None
      ELSE IF parse_digits(d, 1, 0) > u16_MAX THEN None
      ELSE Some(parse_digits(d, 1, 0))

\* str::trim_start_matches(&str): the prefix is removed as often as it occurs
RECURSIVE trim_start_matches(_, _)
trim_start_matches(s, pre) ==
  IF pre # <<>> /\ StartsWith(s, pre)
  THEN trim_start_matches(SubSeq(s, Len(pre) + 1, Len(s)), pre)
  ELSE s

\* str::splitn(2, sep): one part when sep does not occur, else the part
\* before and the part after its first occurrence
splitn2(s, sep) ==
  LET pos == FindStr(s, sep)
  IN  IF pos = 0 THEN <<s>>
      ELSE <<SubSeq(s, 1, pos - 1), SubSeq(s, pos + Len(sep), Len(s))>>

\* a header loop that takes a Status line for one more header
cgi_header_line_status_as_header(acc, line) ==
  LET colon_pos == Find(line, ":")
  IN  IF line = <<>> \/ colon_pos = 0 THEN acc
      ELSE [acc EXCEPT !.headers =
              MapInsert(@, Trim(SubSeq(line, 1, colon_pos - 1)),
                           Trim(SubSeq(line, colon_pos + 1, Len(line))))]

\* one line of the header block of the CGI output
cgi_header_line(acc, line) ==
  IF line = <<>> THEN acc
  ELSE IF StartsWith(line, Str_Status)
  THEN LET status_line == Trim(trim_start_matches(line, Str_Status))
           parts == splitn2(status_line, <<" ">>)
           code == parse_u16(parts[1])
       IN  IF code = None THEN acc
           ELSE [acc EXCEPT !.status = code[1],
                            !.status_text = IF Len(parts) > 1 THEN parts[2] ELSE @]
  ELSE LET colon_pos == Find(line, ":")
       IN  IF colon_pos = 0 THEN acc
           ELSE [acc EXCEPT !.headers =
                   MapInsert(@, Trim(SubSeq(line, 1, colon_pos - 1)),
                                Trim(SubSeq(line, colon_pos + 1, Len(line))))]

RECURSIVE cgi_header_loop(_, _, _)
cgi_header_loop(lines, i, acc) ==
  IF i > Len(lines) THEN acc
  ELSE cgi_header_loop(lines, i + 1, cgi_header_line(acc, lines[i]))

\* CGIExecutor::parse_cgi_response (it never fails)
parse_cgi_response(output) ==
  LET crlf_parts == splitn2(output, CRLF \o CRLF)
      lf_parts == splitn2(output, <<LF, LF>>)
      parts == IF Len(crlf_parts) = 2 THEN crlf_parts
               ELSE IF Len(lf_parts) = 2 THEN lf_parts
               ELSE <<Str_Status_200_OK, output>>
      h == cgi_header_loop(Lines(parts[1]), 1,
             [status |-> 200, status_text |-> Str_OK, headers |-> EmptyMap])
  IN  [status |-> h.status,
       status_text |-> h.status_text,
       headers |-> IF Str_Content_Type \in DOMAIN h.headers THEN h.headers
                   ELSE MapInsert(h.headers, Str_Content_Type, Str_text_html),
       body |-> parts[2],
       is_chunked |-> FALSE]

\* str::to_uppercase and str::replace("-", "_") of a header name
ToUpper(s) ==
  [i \in 1..Len(s) |->
     IF \E k \in 1..26 : LowerLetters[k] = s[i]
     THEN UpperLetters[CHOOSE k \in 1..26 : LowerLetters[k] = s[i]]
     ELSE s[i]]
\* a name without the HTTP_ prefix
cgi_key_bare(key) ==
  [i \in 1..Len(key) |-> IF ToUpper(key)[i] = "-" THEN "_" ELSE ToUpper(key)[i]]
cgi_key(key) ==
  Str_HTTP_ \o [i \in 1..Len(key) |->
                  IF ToUpper(key)[i] = "-" THEN "_" ELSE ToUpper(key)[i]]

\* HashMap::insert of a list of pairs, in order
RECURSIVE InsertAll(_, _)
InsertAll(m, pairs) ==
  IF pairs = <<>> THEN m
  ELSE InsertAll(MapInsert(m, Head(pairs)[1], Head(pairs)[2]), Tail(pairs))
\* the entries of n inserted into m
MapExtend(m, n) ==
  [x \in DOMAIN m \cup DOMAIN n |-> IF x \in DOMAIN n THEN n[x] ELSE m[x]]

\* CGIExecutor::build_cgi_env; environ is the environment of the server
\* (env::vars).  The headers of the requests of the model have distinct
\* HTTP_ names, so that the order of the loop over them does not matter
build_cgi_env(request, client_ip, environ) ==
  LET fixed ==
        InsertAll(EmptyMap,
          <<<<Str_REQUEST_METHOD, request.method>>,
            <<Str_SCRIPT_NAME, request.path>>,
            <<Str_PATH_INFO, request.path>>,
            <<Str_QUERY_STRING,
              IF request.query_string = None THEN <<>> ELSE request.query_string[1]>>,
            <<Str_CONTENT_LENGTH, to_string(Len(request.body))>>,
            <<Str_CONTENT_TYPE,
              IF Str_Content_Type \in DOMAIN request.headers
              THEN request.headers[Str_Content_Type] ELSE Str_text_plain>>,
            <<Str_SERVER_NAME, Str_localhost>>,
            <<Str_SERVER_PORT, Str_8000>>,
            <<Str_SERVER_PROTOCOL, request.version>>,
            <<Str_SERVER_SOFTWARE, Str_server_software>>,
            <<Str_REMOTE_ADDR, client_ip>>,
            <<Str_REMOTE_HOST, client_ip>>>>)
      http == [k \in {cgi_key(h) : h \in DOMAIN request.headers} |->
                 request.headers[CHOOSE h \in DOMAIN request.headers : cgi_key(h) = k]]
      inherited == [k \in DOMAIN environ \cap {Str_PATH, Str_HOME, Str_USER} |->
                      environ[k]]
  IN  MapExtend(
        MapInsert(MapExtend(fixed, http), Str_GATEWAY_INTERFACE, Str_CGI11),
        inherited)

\* CGIExecutor::execute in the world os: whether the script exists, the
\* error of spawn and of wait_with_output (None when they succeed), and what
\* the script prints.  The result is Ok(response) or Err(error), with the
\* path whose existence was tested (the one given to chmod too), the
\* commands that were run and, once the script was spawned, the environment
\* and the input it was given
execute(script_path, request, client_ip, os) ==
  LET env_vars == build_cgi_env(request, client_ip, os.environ)
      use_stdin == request.method \in {POST, PUT}
      stdin_data == IF use_stdin THEN request.body ELSE <<>>
  IN
  IF ~os.exists
  THEN [result |-> "Ok",
        response |-> HttpResponse_new(404, Str_Not_Found, Str_CGI_not_found),
        tested |-> script_path, ran |-> <<>>, env |-> None, stdin |-> None]
  ELSE IF os.spawn_err # None
  THEN [result |-> "Err", error |-> os.spawn_err[1],
        tested |-> script_path, ran |-> <<Str_chmod>>,
        env |-> None, stdin |-> None]
  ELSE IF os.wait_err # None
  THEN [result |-> "Err", error |-> os.wait_err[1],
        tested |-> script_path, ran |-> <<Str_chmod, script_path>>,
        env |-> Some(env_vars), stdin |-> Some(stdin_data)]
  ELSE [result |-> "Ok", response |-> parse_cgi_response(os.stdout),
        tested |-> script_path, ran |-> <<Str_chmod, script_path>>,
        env |-> Some(env_vars), stdin |-> Some(stdin_data)]

\* the page of handle_cgi for a failed execution, of which the model keeps
\* the two <code> elements: the error and the script path
cgi_error_page(e, cgi_path) ==
  <<"<", "c", "o", "d", "e", ">">> \o e \o <<"<", "/", "c", "o", "d", "e", ">">>
  \o <<"<", "c", "o", "d", "e", ">">> \o cgi_path \o <<"<", "/", "c", "o", "d", "e", ">">>

\* a bridge that hands the failure of the execution on to its caller
handle_cgi_propagating(req, client_ip, os) ==
  LET cgi_path == Str_cgi_dir \o trim_start_matches(req.path, Str_cgi_bin)
      r == execute(cgi_path, req, client_ip, os)
  IN  [response |-> IF r.result = "Ok" THEN Some(r.response) ELSE None,
       tested |-> r.tested, ran |-> r.ran, env |-> r.env, stdin |-> r.stdin]

\* handle_cgi: the response (always one) and the commands that were run
handle_cgi(req, client_ip, os) ==
  LET cgi_path == Str_cgi_dir \o trim_start_matches(req.path, Str_cgi_bin)
      r == execute(cgi_path, req, client_ip, os)
  IN  [response |->
         Some(IF r.result = "Ok" THEN r.response
              ELSE builder_build(
                     builder_body_text(
                       builder_content_type(
                         builder_status(builder_new, 500, Str_Internal_Server_Error),
                         Str_text_html_utf8),
                       cgi_error_page(r.error, cgi_path)))),
       tested |-> r.tested, ran |-> r.ran, env |-> r.env, stdin |-> r.stdin]

(***************************************************************************)
(* handle_static                                                           *)
(***************************************************************************)
Str_static_example == <<"s","t","a","t","i","c","/","e","x","a","m","p","l","e",".","h","t","m","l">>
Str_Cache_Control == <<"C","a","c","h","e","-","C","o","n","t","r","o","l">>
Str_public_max_age == <<"p","u","b","l","i","c",","," ","m","a","x","-","a","g","e","=","3","6","0","0">>

\* handle_static in the file system files: the file as a 200 response, or
\* the 404 page when file() failed
handle_static(request, files) ==
  LET r == builder_file(builder_new, Str_static_example, files)
  IN  IF r # None
      THEN builder_build(
             builder_header(builder_status(r[1], 200, Str_OK),
                            Str_Cache_Control, Str_public_max_age))
      ELSE builder_build(
             builder_body_text(
               builder_content_type(
                 builder_status(builder_new, 404, Str_Not_Found),
                 Str_text_html_utf8),
               not_found))

(***************************************************************************)
(* handle_health                                                           *)
(***************************************************************************)
Str_application_json == <<"a","p","p","l","i","c","a","t","i","o","n","/","j","s","o","n">>
Str_no_cache == <<"n","o","-","c","a","c","h","e">>
Str_health_body ==
  <<"{","\"","s","t","a","t","u","s","\"",":"," ","\"","h","e","a","l","t","h","y","\"",","," ","\"","t","i","m","e","s","t","a","m","p","\"",":"," ","\"","2","0","2","5","-","1","2","-","0","9","T","2","0",":","0","0",":","0","0","Z","\"","}">>

\* a health check that answers in plain text
handle_health_plain(req) ==
  builder_build(
    builder_body_text(
      builder_content_type(builder_status(builder_new, 200, Str_OK), Str_text_plain),
      <<"o", "k">>))

\* handle_health
handle_health(req) ==
  builder_build(
    builder_header(
      builder_body_text(
        builder_content_type(builder_status(builder_new, 200, Str_OK),
                             Str_application_json),
        Str_health_body),
      Str_Cache_Control, Str_no_cache))

(***************************************************************************)
(* The codec functions on their own                                        *)
(***************************************************************************)
\* the longest body given to the chunk encoder
MaxBody == 3
BodyBytes == {"a", "0", CR, LF}
RECURSIVE BytesUpTo(_)
BytesUpTo(n) ==
  IF n = 0 THEN {<<>>}
  ELSE LET shorter == BytesUpTo(n - 1)
       IN  shorter \cup {Append(b, c) : b \in shorter, c \in BodyBytes}
Bodies == BytesUpTo(MaxBody)

Str_Host == <<"H","o","s","t">>
Str_Accept == <<"A","c","c","e","p","t">>
\* the parts hand-built requests are assembled from: headers are a list of
\* <<key, value>> with distinct keys; bodies without a line break, with one
\* inside (CRLF and bare LF) and with one at the end
RequestParts ==
  [method : {GET, POST},
   path : {<<"/">>, <<"/", "a">>},
   query_string : {None, Some(<<"x", "=", "1">>)},
   headers : {<<>>,
              <<<<Str_Host, <<"x">>>>>>,
              <<<<Str_Host, <<"x">>>>, <<Str_Accept, <<"y", ":", "z">>>>>>},
   body : {<<>>, <<"a", "b">>, <<"a", LF, "b">>, <<"a", CR, LF, "b">>,
           <<"a", "b", CR, LF>>, <<CR, LF>>}]

RECURSIVE HeaderLines(_)
HeaderLines(hs) ==
  IF hs = <<>> THEN <<>>
  ELSE Head(hs)[1] \o <<":", " ">> \o Head(hs)[2] \o CRLF \o HeaderLines(Tail(hs))

\* the bytes of a hand-built request
Build(rq) ==
  rq.method \o <<" ">> \o rq.path
  \o (IF rq.query_string = None THEN <<>> ELSE <<"?">> \o rq.query_string[1])
  \o <<" ">> \o Str_HTTP11 \o CRLF
  \o HeaderLines(rq.headers) \o CRLF \o rq.body

RECURSIVE HeaderMap(_)
HeaderMap(hs) ==
  IF hs = <<>> THEN EmptyMap
  ELSE LET last == hs[Len(hs)]
       IN  MapInsert(HeaderMap(SubSeq(hs, 1, Len(hs) - 1)), last[1], last[2])

\* the longest string (in chars) given to url_decode
MaxUrl == 3
\* U+00E9 in UTF-8: the bytes 0xc3 0xa9
E_acute == <<CodeByte(195), CodeByte(169)>>
UrlChars == {<<"a">>, <<"%">>, <<"+">>, <<"4">>, <<"1">>, <<" ">>, E_acute}
RECURSIVE StringsUpTo(_)
StringsUpTo(n) ==
  IF n = 0 THEN {<<>>}
  ELSE LET shorter == StringsUpTo(n - 1)
       IN  shorter \cup {s \o c : s \in shorter, c \in UrlChars}
UrlStrings == StringsUpTo(MaxUrl)

\* percent-encoding: an unreserved byte stays, any other byte becomes `%`
\* and its value in two upper-case hex digits
Unreserved ==
  {UpperLetters[k] : k \in 1..26} \cup {LowerLetters[k] : k \in 1..26}
  \cup {HexDigits[k] : k \in 1..10} \cup {"-", "_", ".", "~"}
UpperHex(n) ==
  LET d == HexDigits[n + 1]
  IN  IF \E k \in 1..26 : LowerLetters[k] = d
      THEN UpperLetters[CHOOSE k \in 1..26 : LowerLetters[k] = d] ELSE d
RECURSIVE percent_encode(_)
percent_encode(s) ==
  IF s = <<>> THEN <<>>
  ELSE (IF Head(s) \in Unreserved THEN <<Head(s)>>
        ELSE <<"%", UpperHex(ByteCode(Head(s)) \div 16),
                    UpperHex(ByteCode(Head(s)) % 16)>>)
       \o percent_encode(Tail(s))

\* the longest route table given to Router::handle
MaxRoutes == 2
Str_cgi_script == Str_cgi_bin \o <<"x">>
\* a request path that names the parent of the directory of the scripts
Str_cgi_parent == Str_cgi_bin \o <<".", ".", "/", "x">>
\* the routes a table is made of; the handler of the i-th route of a table
\* is called after its position
RouteMethods == {GET, POST}
RoutePaths == {<<"/">>, Str_api, Str_api_users, Str_cgi_script}
HandlerNames == <<"h1", "h2", "h3", "h4">>
RouteTables ==
  UNION {{[i \in 1..n |-> Route(m[i], p[i], HandlerNames[i])] :
            m \in [1..n -> RouteMethods], p \in [1..n -> RoutePaths]} :
         n \in 0..MaxRoutes}
RoutedRequests ==
  [method : {GET, POST, PUT},
   path : {<<"/">>, Str_api_users, Str_api_users \o <<"/", "1">>,
           <<"/", "x">>, Str_cgi_script}]

\* the longest chain of ResponseBuilder calls before build
MaxCalls == 3
\* the file system ResponseBuilder::file reads: two readable files, one
\* with a known and one with an unknown extension; any other path fails
Path_css == <<"a",".","c","s","s">>
Path_bin == <<"b",".","b","i","n">>
Path_missing == <<"m",".","h","t","m","l">>
Files ==
  [x \in {Path_css, Path_bin} |->
     IF x = Path_css THEN <<"p", "{", "}">> ELSE <<"a", "b">>]
\* the arguments of the calls
StatusArgs == {<<404, Str_Not_Found>>}
HeaderArgs == {<<Str_Content_Length, <<"5">>>>,
               <<Str_Transfer_Encoding, Str_chunked_value>>}
ContentTypeArgs == {Str_text_html}
BodyArgs == {<<"a", "b">>}
CookieArgs == {<<<<"a">>, <<"1">>>>, <<<<"b">>, <<"2">>>>}
CookieOptionArgs == {<<<<"c">>, <<"3">>, None, <<"/">>, FALSE>>,
                     <<<<"d">>, <<"4">>, Some(60), <<"/">>, TRUE>>}
FileArgs == {Path_css, Path_bin, Path_missing}

\* the CGI requests, as HttpParser::parse returns them for what a client
\* sent: without a content type, and with one under the usual and under a
\* lower-case header name; the addresses of the clients; the environment
\* of the server
\* a request header named after a variable of the server
Str_Remote_Addr == <<"R","e","m","o","t","e","-","A","d","d","r">>
Str_a_b == <<"a","/","b">>
CgiRequestParts ==
  [method : {GET, POST},
   path : {Str_cgi_script, Str_cgi_parent},
   query_string : {None},
   headers : {<<>>, <<<<Str_Content_Type, Str_a_b>>>>, <<<<Str_content_type, Str_a_b>>>>,
              <<<<Str_Remote_Addr, <<"6">>>>>>},
   body : {<<"a", "b">>}]
CgiRequests == {parse(Build(p))[1] : p \in CgiRequestParts}
PeerAddrs == {Str_client_ip, <<"1","0",".","0",".","0",".","2">>}
Environ ==
  InsertAll(EmptyMap, <<<<Str_PATH, <<"/","b","i","n">>>>,
                        <<<<"L","A","N","G">>, <<"C">>>>>>)
Err_spawn == <<"P","e","r","m","i","s","s","i","o","n"," ","d","e","n","i","e","d">>
Err_wait == <<"B","r","o","k","e","n"," ","p","i","p","e">>
\* what a script may print: a body alone, headers and a body separated by
\* LF LF or CRLF CRLF, a Status line, a Content-Length, a lower-case
\* content-type, a Status line without a number, both separators in either
\* order, a Status line without a text, a Status line but no blank line
CgiOutputs ==
  {<<"H","e","l","l","o">>,
   <<"C","o","n","t","e","n","t","-","T","y","p","e",":"," ","t","e","x","t","/","p","l","a","i","n",LF,LF,"H","e","l","l","o">>,
   <<"S","t","a","t","u","s",":"," ","4","0","4"," ","N","o","t"," ","F","o","u","n","d",CR,LF,CR,LF,"n","o">>,
   <<"C","o","n","t","e","n","t","-","L","e","n","g","t","h",":"," ","2",LF,LF,"H","e","l","l","o">>,
   <<"c","o","n","t","e","n","t","-","t","y","p","e",":"," ","a","/","b",CR,LF,CR,LF,"x">>,
   <<"S","t","a","t","u","s",":"," ","a","b","c",LF,LF,"x">>,
   <<"X","-","A",":"," ","b",LF,LF,"x",CR,LF,CR,LF,"y">>,
   <<"X","-","A",":"," ","b",CR,LF,CR,LF,"x",LF,LF,"y">>,
   <<"S","t","a","t","u","s",":"," ","2","0","0"," ","O","K",CR,LF,CR,LF,"H","e","l","l","o">>,
   <<"S","t","a","t","u","s",":"," ","3","0","2",LF,LF,"x">>,
   <<"S","t","a","t","u","s",":"," ","4","0","4"," ","G","o","n","e",LF,"H","e","l","l","o">>}
CgiWorlds ==
  [exists : BOOLEAN, spawn_err : {None, Some(Err_spawn)},
   wait_err : {None, Some(Err_wait)}, stdout : CgiOutputs, environ : {Environ}]

\* the file systems handle_static runs in: static/example.html missing,
\* empty, or there with a page
Str_page == <<"<","p",">","h","i","<","/","p",">">>
StaticWorlds ==
  {EmptyMap} \cup {[x \in {Str_static_example} |-> c] : c \in {<<>>, Str_page}}

\* the form requests: POST /submit with a Content-Type and a body.  The
\* urlencoded bodies: the example of the documentation, pieces without `=`,
\* a repeated key, `+` and an escape, the empty body.  The multipart body:
\* a field f and a file u in parts delimited by CRLF, with the boundary XX
Str_submit == <<"/","s","u","b","m","i","t">>
Str_multipart_XX == Str_multipart \o <<";"," ","b","o","u","n","d","a","r","y","=","X","X">>
Body_example == <<"u","s","e","r","n","a","m","e","=","j","o","h","n","&","e","m","a","i","l","=","a","%","4","0","b",".","c","o","m">>
Body_multipart ==
  <<"-","-","X","X",CR,LF,"C","o","n","t","e","n","t","-","D","i","s","p","o","s","i","t","i","o","n",":"," ","f","o","r","m","-","d","a","t","a",";"," ","n","a","m","e","=","\"","f","\"",CR,LF,CR,LF,"v",CR,LF>>
  \o <<"-","-","X","X",CR,LF,"C","o","n","t","e","n","t","-","D","i","s","p","o","s","i","t","i","o","n",":"," ","f","o","r","m","-","d","a","t","a",";"," ","n","a","m","e","=","\"","u","\"",";"," ","f","i","l","e","n","a","m","e","=","\"","a",".","t","x","t","\"",CR,LF,"C","o","n","t","e","n","t","-","T","y","p","e",":"," ","t","e","x","t","/","c","s","s",CR,LF,CR,LF,"h","i",CR,LF>>
  \o <<"-","-","X","X","-","-",CR,LF>>
UrlencodedBodies ==
  {Body_example, <<"a">>, <<"a","=","1","&","b">>, <<"k","=","1","&","k","=","2">>, <<"a","+","b","=","c","%","2","0","d">>, <<"a","=","1","&","&","b","=","2">>, <<>>}
FormRequestParts ==
  {[method |-> POST, path |-> Str_submit, query_string |-> None,
    headers |-> <<<<Str_Content_Type, Str_urlencoded>>>>, body |-> b] :
     b \in UrlencodedBodies}
  \cup
  {[method |-> POST, path |-> Str_submit, query_string |-> None,
    headers |-> <<<<Str_Content_Type, Str_multipart_XX>>>>, body |-> Body_multipart]}

\* the requests for the health check, as parse returns them: GET /health
\* alone, with a query string and with a header, and a POST
Str_health == <<"/","h","e","a","l","t","h">>
HealthRequestParts ==
  {[method |-> m, path |-> Str_health, query_string |-> q, headers |-> hs,
    body |-> <<>>] :
     m \in {GET, POST}, q \in {None, Some(<<"x", "=", "1">>)},
     hs \in {<<>>, <<<<Str_Host, <<"x">>>>>>}}
HealthRequests == {parse(Build(p))[1] : p \in HealthRequestParts}

\* multipart bodies with the boundary XX given to parse_multipart as they
\* were sent: the field and the file of Body_multipart; a part after the
\* closing marker; a field whose content holds two hyphens, as first and as
\* second part
Str_XX == <<"X", "X">>
Body_after_close ==
  <<"-","-","X","X",CR,LF,"C","o","n","t","e","n","t","-","D","i","s","p","o","s","i","t","i","o","n",":"," ","f","o","r","m","-","d","a","t","a",";"," ","n","a","m","e","=","\"","f","\"",CR,LF,CR,LF,"v",CR,LF>>
  \o <<"-","-","X","X","-","-",CR,LF>>
  \o <<"-","-","X","X",CR,LF,"C","o","n","t","e","n","t","-","D","i","s","p","o","s","i","t","i","o","n",":"," ","f","o","r","m","-","d","a","t","a",";"," ","n","a","m","e","=","\"","h","\"",CR,LF,CR,LF,"w",CR,LF>>
Body_hyphens_first ==
  <<"-","-","X","X",CR,LF,"C","o","n","t","e","n","t","-","D","i","s","p","o","s","i","t","i","o","n",":"," ","f","o","r","m","-","d","a","t","a",";"," ","n","a","m","e","=","\"","f","\"",CR,LF,CR,LF,"a","-","-","b",CR,LF>>
  \o <<"-","-","X","X",CR,LF,"C","o","n","t","e","n","t","-","D","i","s","p","o","s","i","t","i","o","n",":"," ","f","o","r","m","-","d","a","t","a",";"," ","n","a","m","e","=","\"","g","\"",CR,LF,CR,LF,"v",CR,LF>>
  \o <<"-","-","X","X","-","-",CR,LF>>
Body_hyphens_second ==
  <<"-","-","X","X",CR,LF,"C","o","n","t","e","n","t","-","D","i","s","p","o","s","i","t","i","o","n",":"," ","f","o","r","m","-","d","a","t","a",";"," ","n","a","m","e","=","\"","f","\"",CR,LF,CR,LF,"v",CR,LF>>
  \o <<"-","-","X","X",CR,LF,"C","o","n","t","e","n","t","-","D","i","s","p","o","s","i","t","i","o","n",":"," ","f","o","r","m","-","d","a","t","a",";"," ","n","a","m","e","=","\"","g","\"",CR,LF,CR,LF,"a","-","-","b",CR,LF>>
  \o <<"-","-","X","X","-","-",CR,LF>>
MultipartBodies ==
  {Body_multipart, Body_after_close, Body_hyphens_first, Body_hyphens_second}

\* long bodies, of the lengths around one and two chunks; byte i of a body
\* is a for an odd and b for an even i
LongLengths ==
  {1, chunk_size - 1, chunk_size, chunk_size + 1, 2 * chunk_size, 2 * chunk_size + 1}
LongBody(n) == [i \in 1..n |-> IF i % 2 = 1 THEN "a" ELSE "b"]

\* chunked bodies given to decode_chunked: the example of the documentation;
\* size lines that are not hex, before and between the chunks; a data line
\* shorter and one longer than announced; bytes after the 0 line; a 0 line
\* first; a size line without a data line; LF line ends; an upper-case size
Body_wiki == <<"4",CR,LF,"W","i","k","i",CR,LF,"5",CR,LF,"p","e","d","i","a",CR,LF,"0",CR,LF,CR,LF>>
ChunkedTexts ==
  {Body_wiki,
   <<"z","z",CR,LF,"4",CR,LF,"W","i","k","i",CR,LF,"0",CR,LF>>,
   <<"9",CR,LF,"a","b",CR,LF,"0",CR,LF>>,
   <<"2",CR,LF,"a","b","c","d",CR,LF,"0",CR,LF,"f","o","o">>,
   <<"0",CR,LF,"4",CR,LF,"W","i","k","i",CR,LF>>,
   <<"4">>,
   <<"4",LF,"W","i","k","i",LF,"0",LF>>,
   <<"4",";","x",CR,LF,"W","i","k","i",CR,LF,"0",CR,LF>>,
   <<"A",CR,LF,"0","1","2","3","4","5","6","7","8","9","a","b","c",CR,LF,"0",CR,LF>>,
   <<"1",CR,LF,"x",CR,LF,"z","z",CR,LF,"1",CR,LF,"y",CR,LF>>}

InitCodec ==
  /\ InitReactor
  /\ script = [p \in Peers |-> <<>>]
  /\ peers = [p \in Peers |-> Gone]
  /\ pure \in {[op |-> "request", in |-> rq, out |-> None] : rq \in RequestParts}
        \cup {[op |-> "body", in |-> b, out |-> None] : b \in Bodies}
        \cup {[op |-> o, in |-> u, out |-> None] :
                o \in {"url", "text"}, u \in UrlStrings}
        \cup {[op |-> "builder", in |-> <<>>, out |-> builder_new]}
        \cup {[op |-> "chunked_text", in |-> b, out |-> None] : b \in ChunkedTexts}
        \cup {[op |-> "long_body", in |-> LongBody(n), out |-> None] : n \in LongLengths}
        \cup {[op |-> "multipart", in |-> b, out |-> None] : b \in MultipartBodies}
        \cup {[op |-> "serve", in |-> rq, out |-> None] : rq \in HealthRequests}
        \cup {[op |-> "form", in |-> rq, out |-> None] : rq \in FormRequestParts}
        \cup {[op |-> "static", in |-> [request |-> rq, files |-> fs], out |-> None] :
                rq \in CgiRequests, fs \in StaticWorlds}
        \cup {[op |-> "cgi", in |-> [request |-> rq, os |-> w, peer_addr |-> a],
               out |-> None] :
                rq \in CgiRequests, w \in CgiWorlds, a \in PeerAddrs}
        \cup {[op |-> "route", in |-> [routes |-> t, request |-> rq],
               out |-> None] : t \in RouteTables, rq \in RoutedRequests}

\* HttpParser::parse applied to the bytes of a hand-built request
ParseRequest ==
  /\ pure.op = "request"
  /\ pure' = [op |-> "parsed", in |-> pure.in, out |-> parse(Build(pure.in))]
  /\ UNCHANGED reactor_vars

\* the body part of to_bytes for a chunked response with body pure.in
EncodeBody ==
  /\ pure.op = "body"
  /\ pure' = [op |-> "encoded", in |-> pure.in, out |-> body_bytes(pure.in, TRUE)]
  /\ UNCHANGED reactor_vars

\* decode_chunked applied to the encoded body
DecodeBody ==
  /\ pure.op = "encoded"
  /\ pure' = [op |-> "decoded", in |-> pure.in, out |-> decode_chunked(pure.out)]
  /\ UNCHANGED reactor_vars

\* url_decode applied to a string
UrlDecode ==
  /\ pure.op = "url"
  /\ pure' = [op |-> "url_decoded", in |-> pure.in, out |-> url_decode(pure.in)]
  /\ UNCHANGED reactor_vars

\* url_decode applied to the percent-encoding of a string
UrlDecodeEncoded ==
  /\ pure.op = "text"
  /\ pure' = [op |-> "text_decoded", in |-> pure.in,
              out |-> url_decode(percent_encode(pure.in))]
  /\ UNCHANGED reactor_vars

\* Router::handle applied to a request: the handler it invokes and, when
\* it invokes none, the response it makes itself
RouteRequest ==
  /\ pure.op = "route"
  /\ LET handler == handle(pure.in.routes, pure.in.request)
     IN  pure' = [op |-> "routed", in |-> pure.in,
                  out |-> [handler |-> handler,
                           response |-> IF handler = "not_found"
                                        THEN Some(default_response) ELSE None]]
  /\ UNCHANGED reactor_vars

\* one more call on the builder: the call is recorded and the builder it
\* returns replaces the one it consumed
BuilderStep(fn, args, self) ==
  /\ pure.op = "builder"
  /\ Len(pure.in) < MaxCalls
  /\ pure' = [op |-> "builder", in |-> Append(pure.in, [fn |-> fn, args |-> args]),
              out |-> self]
  /\ UNCHANGED reactor_vars

CallStatus ==
  \E a \in StatusArgs : BuilderStep("status", a, builder_status(pure.out, a[1], a[2]))
CallHeader ==
  \E a \in HeaderArgs : BuilderStep("header", a, builder_header(pure.out, a[1], a[2]))
CallContentType ==
  \E a \in ContentTypeArgs :
    BuilderStep("content_type", a, builder_content_type(pure.out, a))
CallBodyText ==
  \E a \in BodyArgs : BuilderStep("body_text", a, builder_body_text(pure.out, a))
CallBodyBytes ==
  \E a \in BodyArgs : BuilderStep("body_bytes", a, builder_body_bytes(pure.out, a))
CallCookie ==
  \E a \in CookieArgs : BuilderStep("cookie", a, builder_cookie(pure.out, a[1], a[2]))
CallCookieWithOptions ==
  \E a \in CookieOptionArgs :
    BuilderStep("cookie_with_options", a,
      builder_cookie_with_options(pure.out, a[1], a[2], a[3], a[4], a[5]))
CallChunked ==
  \E a \in BOOLEAN : BuilderStep("chunked", a, builder_chunked(pure.out, a))

\* file(path)?: the builder goes on with the file as body, or the error
\* ends the chain and there is no builder any more
CallFile ==
  /\ pure.op = "builder"
  /\ \E a \in FileArgs :
       LET r == builder_file(pure.out, a, Files)
       IN  IF r = None
           THEN /\ pure' = [op |-> "file_error",
                            in |-> Append(pure.in, [fn |-> "file", args |-> a]),
                            out |-> None]
                /\ UNCHANGED reactor_vars
           ELSE BuilderStep("file", a, r[1])

\* build() ends the chain
CallBuild ==
  /\ pure.op = "builder"
  /\ pure' = [op |-> "built", in |-> pure.in, out |-> builder_build(pure.out)]
  /\ UNCHANGED reactor_vars

\* Router::handle for a request under /cgi-bin/ that a connection from
\* pure.in.peer_addr delivered: handle_cgi is called
HandleCgi ==
  /\ pure.op = "cgi"
  /\ handle(ServerRoutes, pure.in.request) = "handle_cgi"
  /\ pure' = [op |-> "cgi_done", in |-> pure.in,
              out |-> handle_cgi(pure.in.request, Str_client_ip, pure.in.os)]
  /\ UNCHANGED reactor_vars

\* handle_static called for a request
HandleStatic ==
  /\ pure.op = "static"
  /\ pure' = [op |-> "static_done", in |-> pure.in,
              out |-> handle_static(pure.in.request, pure.in.files)]
  /\ UNCHANGED reactor_vars

\* HttpParser::parse applied to the bytes of a form request
ParseForm ==
  /\ pure.op = "form"
  /\ pure' = [op |-> "form_parsed", in |-> pure.in, out |-> parse(Build(pure.in))]
  /\ UNCHANGED reactor_vars

\* Router::handle with the routes of the server, for a request to /health:
\* handle_health is called, or no route matches
ServeHealth ==
  /\ pure.op = "serve"
  /\ LET handler == handle(ServerRoutes, pure.in)
     IN  /\ handler \in {"handle_health", "not_found"}
         /\ pure' = [op |-> "served", in |-> pure.in,
                     out |-> [handler |-> handler,
                              response |-> IF handler = "handle_health"
                                           THEN handle_health(pure.in)
                                           ELSE default_response]]
  /\ UNCHANGED reactor_vars

\* parse_multipart applied to a body and its boundary, with no fields and no
\* files yet
ParseMultipart ==
  /\ pure.op = "multipart"
  /\ pure' = [op |-> "multipart_parsed", in |-> pure.in,
              out |-> parse_multipart(pure.in, Str_XX, EmptyMap, EmptyMap)]
  /\ UNCHANGED reactor_vars

\* the body part of to_bytes for a chunked response with a long body
EncodeLongBody ==
  /\ pure.op = "long_body"
  /\ pure' = [op |-> "long_encoded", in |-> pure.in,
              out |-> body_bytes(pure.in, TRUE)]
  /\ UNCHANGED reactor_vars

\* decode_chunked applied to a chunked body as a client may send it
DecodeText ==
  /\ pure.op = "chunked_text"
  /\ pure' = [op |-> "chunked_decoded", in |-> pure.in,
              out |-> decode_chunked(pure.in)]
  /\ UNCHANGED reactor_vars

NextCodec ==
  \/ DecodeText
  \/ EncodeLongBody
  \/ ParseMultipart
  \/ ServeHealth
  \/ ParseForm
  \/ HandleStatic
  \/ HandleCgi
  \/ CallStatus
  \/ CallHeader
  \/ CallContentType
  \/ CallBodyText
  \/ CallBodyBytes
  \/ CallCookie
  \/ CallCookieWithOptions
  \/ CallChunked
  \/ CallFile
  \/ CallBuild
  \/ RouteRequest
  \/ ParseRequest
  \/ EncodeBody
  \/ DecodeBody
  \/ UrlDecode
  \/ UrlDecodeEncoded

SpecCodec == InitCodec /\ [][NextCodec]_vars

\* C9: parsing the bytes of a valid hand-built request returns a request
\* whose method, path, query string, headers and body are the ones it was
\* built from, also when the body contains or ends with a line break.
C9_ParseRoundTrip ==
  pure.op = "parsed" =>
    /\ pure.out # None
    /\ pure.out[1].method = pure.in.method
    /\ pure.out[1].path = pure.in.path
    /\ pure.out[1].query_string = pure.in.query_string
    /\ pure.out[1].headers = HeaderMap(pure.in.headers)
    /\ pure.out[1].body = pure.in.body

\* everything but the body is recovered, and so is a body without CR that
\* does not end with a line break
C9_RecoveredButCRLFBody ==
  pure.op = "parsed" =>
    /\ pure.out # None
    /\ pure.out[1].method = pure.in.method
    /\ pure.out[1].path = pure.in.path
    /\ pure.out[1].query_string = pure.in.query_string
    /\ pure.out[1].headers = HeaderMap(pure.in.headers)
    /\ (~Contains(pure.in.body, <<CR>>)
        /\ (pure.in.body = <<>> \/ pure.in.body[Len(pure.in.body)] # LF))
         => pure.out[1].body = pure.in.body

\* C10: chunk-encoding a body as to_bytes does and decoding the result with
\* decode_chunked returns the body.
C10_ChunkedRoundTrip == pure.op = "decoded" => pure.out = pure.in

\* C11: url_decode returns a string that contains neither `%` nor `+`
\* unchanged, and url_decode(percent_encode(s)) = s for every string s
\* without control characters.
C11_UrlDecodeInverse ==
  /\ (/\ pure.op = "url_decoded"
      /\ Find(pure.in, "%") = 0 /\ Find(pure.in, "+") = 0) => pure.out = pure.in
  /\ pure.op = "text_decoded" => pure.out = pure.in

\* both halves of C11 for the strings of ASCII bytes
C11_HoldsForAscii ==
  (/\ pure.op \in {"url_decoded", "text_decoded"}
   /\ \A i \in 1..Len(pure.in) : ByteCode(pure.in[i]) < 128) =>
    /\ (/\ pure.op = "url_decoded"
        /\ Find(pure.in, "%") = 0 /\ Find(pure.in, "+") = 0) => pure.out = pure.in
    /\ pure.op = "text_decoded" => pure.out = pure.in

\* what a routed request is compared with: the routes with exactly its
\* method and path, and those with its method whose path is a prefix of its
RoutedNonCgi ==
  pure.op = "routed" /\ ~StartsWith(pure.in.request.path, Str_cgi_bin)
ExactRoutes ==
  {i \in 1..Len(pure.in.routes) :
     /\ pure.in.routes[i].method = pure.in.request.method
     /\ pure.in.routes[i].path = pure.in.request.path}
PrefixRoutes ==
  {i \in 1..Len(pure.in.routes) :
     /\ pure.in.routes[i].method = pure.in.request.method
     /\ StartsWith(pure.in.request.path, pure.in.routes[i].path)}
NonRootPrefixRoutes ==
  {i \in PrefixRoutes : pure.in.routes[i].path # <<"/">>}

\* C12: for a non-CGI request for which some route has exactly its method
\* and path, Router::handle invokes the first-registered such route, also
\* when a route whose path is a proper prefix of the request path was
\* registered earlier.
C12_ExactMatchFirst ==
  (RoutedNonCgi /\ ExactRoutes # {}) =>
    pure.out.handler = pure.in.routes[SetMin(ExactRoutes)].handler

\* GET /api/ was registered before GET /api/users, and GET /api/users was
\* routed to the second route
C12_Witness ==
  /\ RoutedNonCgi
  /\ pure.in.request = [method |-> GET, path |-> Str_api_users]
  /\ pure.in.routes = <<Route(GET, Str_api, "h1"), Route(GET, Str_api_users, "h2")>>
  /\ pure.out.handler = "h2"

\* C13 as stated: when no route matches a non-CGI request exactly, the
\* earliest-registered route with the request's method whose path is a
\* string prefix of the request path is invoked.
C13_FirstPrefixWins ==
  (RoutedNonCgi /\ ExactRoutes = {} /\ PrefixRoutes # {}) =>
    pure.out.handler = pure.in.routes[SetMin(PrefixRoutes)].handler

\* C13, amended: when no route matches a non-CGI request exactly, the
\* earliest-registered route with the request's method whose path is not
\* "/" and is a string prefix of the request path is invoked, even if a
\* later-registered route has a longer matching prefix.
C13_FirstNonRootPrefixWins ==
  (RoutedNonCgi /\ ExactRoutes = {} /\ NonRootPrefixRoutes # {}) =>
    pure.out.handler = pure.in.routes[SetMin(NonRootPrefixRoutes)].handler

\* GET /api/ was registered before GET /api/users, and GET /api/users/1 was
\* routed to the first route
C13_Witness ==
  /\ RoutedNonCgi
  /\ pure.in.request = [method |-> GET, path |-> Str_api_users \o <<"/", "1">>]
  /\ pure.in.routes = <<Route(GET, Str_api, "h1"), Route(GET, Str_api_users, "h2")>>
  /\ pure.out.handler = "h1"

\* C14: the route registered with path "/" is invoked only for a request
\* whose path is exactly "/" and whose method is the route's; prefix
\* matching never selects it.
C14_RootOnlyExact ==
  pure.op = "routed" =>
    \A i \in 1..Len(pure.in.routes) :
      (pure.in.routes[i].path = <<"/">> /\ pure.out.handler = pure.in.routes[i].handler)
        => /\ pure.in.request.path = <<"/">>
           /\ pure.in.request.method = pure.in.routes[i].method

\* GET / is the only route with the request's method, and GET /x was not
\* routed to it
C14_Witness ==
  /\ pure.op = "routed"
  /\ pure.in.request = [method |-> GET, path |-> <<"/", "x">>]
  /\ pure.in.routes = <<Route(GET, <<"/">>, "h1"), Route(POST, Str_api, "h2")>>
  /\ pure.out.handler = "not_found"

\* C15: a request whose path starts with /cgi-bin/ goes to the CGI bridge,
\* whatever its method and whatever routes are registered; no route handler
\* is invoked.
C15_CgiBypassesRoutes ==
  (pure.op = "routed" /\ StartsWith(pure.in.request.path, Str_cgi_bin)) =>
    pure.out.handler = "handle_cgi"

\* a route with exactly the method and path of the CGI request is
\* registered, another one prefixes it, and the CGI bridge was invoked
C15_Witness ==
  /\ pure.op = "routed"
  /\ pure.in.request = [method |-> GET, path |-> Str_cgi_script]
  /\ pure.in.routes = <<Route(GET, Str_cgi_script, "h1"), Route(GET, <<"/">>, "h2")>>
  /\ pure.out.handler = "handle_cgi"

\* C16: a non-CGI request that no route matches exactly and that no
\* non-root route with its method prefixes (a known path with an
\* unregistered method included) gets a 404 response whose Content-Length
\* equals the length of its body, and no handler is invoked.
C16_NotFound ==
  (RoutedNonCgi /\ ExactRoutes = {} /\ NonRootPrefixRoutes = {}) =>
    /\ pure.out.handler = "not_found"
    /\ pure.out.response # None
    /\ pure.out.response[1].status = 404
    /\ ~pure.out.response[1].is_chunked
    /\ Str_Content_Length \in DOMAIN pure.out.response[1].headers
    /\ pure.out.response[1].headers[Str_Content_Length]
         = to_string(Len(pure.out.response[1].body))

\* /api/users is registered for GET and POST, and PUT /api/users got the 404
C16_Witness ==
  /\ pure.op = "routed"
  /\ pure.in.request = [method |-> PUT, path |-> Str_api_users]
  /\ pure.in.routes = <<Route(GET, Str_api_users, "h1"), Route(POST, Str_api_users, "h2")>>
  /\ pure.out.handler = "not_found"
  /\ pure.out.response[1].status = 404

\* C17: whatever ResponseBuilder calls precede build, in whatever order, a
\* built response with is_chunked = true has the header Transfer-Encoding:
\* chunked and no Content-Length header.
C17_ChunkedHeaders ==
  (pure.op = "built" /\ pure.out.is_chunked) =>
    /\ Str_Transfer_Encoding \in DOMAIN pure.out.headers
    /\ pure.out.headers[Str_Transfer_Encoding] = Str_chunked_value
    /\ Str_Content_Length \notin DOMAIN pure.out.headers

\* the same when no header() call follows the last chunked(true)
C17_HoldsWithoutLaterHeader ==
  (/\ pure.op = "built" /\ pure.out.is_chunked
   /\ \A i, j \in 1..Len(pure.in) :
        (pure.in[i].fn = "chunked" /\ pure.in[j].fn = "header") => j < i) =>
    /\ Str_Transfer_Encoding \in DOMAIN pure.out.headers
    /\ pure.out.headers[Str_Transfer_Encoding] = Str_chunked_value
    /\ Str_Content_Length \notin DOMAIN pure.out.headers

\* a non-chunked response carries Content-Length
HasContentLength(response) ==
  response.is_chunked \/ Str_Content_Length \in DOMAIN response.headers
\* and its value is the length of the body
ContentLengthIsBodyLength(response) ==
  response.is_chunked
  \/ /\ Str_Content_Length \in DOMAIN response.headers
     /\ response.headers[Str_Content_Length] = to_string(Len(response.body))

\* C18: every non-chunked response the server serializes, whether made by
\* ResponseBuilder::build, by HttpResponse::new or by parse_cgi_response,
\* carries a Content-Length header, and unless a handler (a header call) or
\* the script set that header its value is the byte length of the body.
C18_ContentLength ==
  /\ pure.op = "built" =>
       /\ HasContentLength(pure.out)
       /\ (\A i \in 1..Len(pure.in) :
             ~(pure.in[i].fn = "header" /\ pure.in[i].args[1] = Str_Content_Length))
            => ContentLengthIsBodyLength(pure.out)
  /\ (pure.op = "routed" /\ pure.out.response # None) =>
       ContentLengthIsBodyLength(pure.out.response[1])
  /\ pure.op = "cgi_done" =>
       /\ pure.out.response # None
       /\ HasContentLength(pure.out.response[1])
       /\ ~Contains(pure.in.os.stdout, Str_Content_Length)
            => ContentLengthIsBodyLength(pure.out.response[1])

\* C18 holds of the responses that are not made from the output of a script
C18_HoldsButCgiOutput ==
  /\ pure.op = "built" =>
       /\ HasContentLength(pure.out)
       /\ (\A i \in 1..Len(pure.in) :
             ~(pure.in[i].fn = "header" /\ pure.in[i].args[1] = Str_Content_Length))
            => ContentLengthIsBodyLength(pure.out)
  /\ (pure.op = "routed" /\ pure.out.response # None) =>
       ContentLengthIsBodyLength(pure.out.response[1])
  /\ (pure.op = "cgi_done"
      /\ (\/ ~pure.in.os.exists \/ pure.in.os.spawn_err # None
          \/ pure.in.os.wait_err # None)) =>
       /\ pure.out.response # None
       /\ ContentLengthIsBodyLength(pure.out.response[1])

\* the cookie-adding calls of a chain, in order
RECURSIVE CookieCalls(_)
CookieCalls(calls) ==
  IF calls = <<>> THEN <<>>
  ELSE (IF Head(calls).fn \in {"cookie", "cookie_with_options"}
        THEN <<Head(calls)>> ELSE <<>>) \o CookieCalls(Tail(calls))
SimpleCookieCalls(calls) ==
  LET f[i \in 0..Len(calls)] ==
        IF i = 0 THEN <<>>
        ELSE IF calls[i].fn = "cookie" THEN Append(f[i - 1], calls[i]) ELSE f[i - 1]
  IN  f[Len(calls)]

\* the Set-Cookie value a cookie-adding call stands for
CookieOf(call) ==
  IF call.fn = "cookie" THEN call.args[1] \o <<"=">> \o call.args[2]
  ELSE call.args[1] \o <<"=">> \o call.args[2]
       \o (IF call.args[3] = None THEN <<>>
           ELSE Str_Max_Age \o to_string(call.args[3][1]))
       \o Str_Path \o call.args[4]
       \o (IF call.args[5] THEN Str_HttpOnly ELSE <<>>)

\* the chain consists of cookie-adding calls only, at least one
OnlyCookieCalls ==
  /\ pure.op = "built" /\ pure.in # <<>>
  /\ CookieCalls(pure.in) = pure.in

\* C19 as stated: after any sequence of cookie() and cookie_with_options()
\* calls the built response carries one Set-Cookie header, the cookie of the
\* last cookie-adding call made.
C19_LastCookieWins ==
  OnlyCookieCalls =>
    /\ Str_Set_Cookie \in DOMAIN pure.out.headers
    /\ pure.out.headers[Str_Set_Cookie] = CookieOf(pure.in[Len(pure.in)])

\* what build does with the cookies: the one Set-Cookie header is the cookie
\* of the last cookie() call if there was one, whenever it was made, and
\* otherwise the cookie of the last cookie_with_options() call
LastSimpleCookieWins ==
  OnlyCookieCalls =>
    /\ Str_Set_Cookie \in DOMAIN pure.out.headers
    /\ pure.out.headers[Str_Set_Cookie] =
         CookieOf(IF SimpleCookieCalls(pure.in) # <<>>
                  THEN SimpleCookieCalls(pure.in)[Len(SimpleCookieCalls(pure.in))]
                  ELSE pure.in[Len(pure.in)])

\* cookie(a), cookie(b), then cookie_with_options(d): the response carries b
EarlierSimpleCookieKept ==
  /\ OnlyCookieCalls
  /\ Len(pure.in) = 3
  /\ pure.in[1].fn = "cookie" /\ pure.in[2].fn = "cookie"
  /\ pure.in[1].args # pure.in[2].args
  /\ pure.in[3].fn = "cookie_with_options"
  /\ pure.out.headers[Str_Set_Cookie] = CookieOf(pure.in[2])

\* the path of the script handle_cgi executes for the request
CgiPathOf(request) == Str_cgi_dir \o SubSeq(request.path, Len(Str_cgi_bin) + 1, Len(request.path))

\* C20: for a CGI request whose script file does not exist the response is
\* a 404 and no subprocess is run; when spawning or waiting for the
\* subprocess fails the response is a 500 whose body names the script path;
\* in every case Router::handle returns a response, so that no error
\* reaches the event loop.
C20_CgiFailuresBecomeResponses ==
  pure.op = "cgi_done" =>
    /\ pure.out.response # None
    /\ ~pure.in.os.exists =>
         (pure.out.response[1].status = 404 /\ pure.out.ran = <<>>)
    /\ (/\ pure.in.os.exists
        /\ (pure.in.os.spawn_err # None \/ pure.in.os.wait_err # None)) =>
         /\ pure.out.response[1].status = 500
         /\ Contains(pure.out.response[1].body, CgiPathOf(pure.in.request))

\* the script was spawned, waiting for it failed, and the response is the 500
C20_Witness ==
  /\ pure.op = "cgi_done"
  /\ pure.in.os.exists /\ pure.in.os.spawn_err = None
  /\ pure.in.os.wait_err # None
  /\ pure.out.response # None
  /\ pure.out.response[1].status = 500
  /\ Len(pure.out.ran) = 2

\* the content type C21 expects for the files of the model, by extension
Str_text_css == <<"t","e","x","t","/","c","s","s">>
ExpectedType(path) ==
  IF path = Path_css THEN Str_text_css
  ELSE IF path = Str_static_example THEN Str_text_html
  ELSE Str_octet_stream

\* C21: file() of an unreadable file returns an error and no builder, and
\* handle_static answers it with a 404 response whose Content-Length is the
\* length of its body; file() of a readable file makes the file's bytes the
\* body and sets the Content-Type of its extension, application/octet-stream
\* for an unknown one.
C21_StaticFile ==
  /\ pure.op = "file_error" =>
       /\ pure.out = None
       /\ pure.in[Len(pure.in)].args \notin DOMAIN Files
  /\ (pure.op = "builder" /\ pure.in # <<>> /\ pure.in[Len(pure.in)].fn = "file") =>
       LET path == pure.in[Len(pure.in)].args
       IN  /\ path \in DOMAIN Files
           /\ pure.out.body = Files[path]
           /\ Str_Content_Type \in DOMAIN pure.out.headers
           /\ pure.out.headers[Str_Content_Type] = ExpectedType(path)
  /\ (pure.op = "static_done" /\ Str_static_example \notin DOMAIN pure.in.files) =>
       /\ pure.out.status = 404
       /\ ~pure.out.is_chunked
       /\ ContentLengthIsBodyLength(pure.out)
       /\ pure.out.body # <<>>
  /\ (pure.op = "static_done" /\ Str_static_example \in DOMAIN pure.in.files) =>
       /\ pure.out.status = 200
       /\ pure.out.body = pure.in.files[Str_static_example]
       /\ pure.out.headers[Str_Content_Type] = ExpectedType(Str_static_example)

\* handle_static has answered a missing file, and file() has failed on one
\* path and set application/octet-stream for another
C21_Witness ==
  /\ pure.op = "static_done"
  /\ Str_static_example \notin DOMAIN pure.in.files
  /\ pure.out.status = 404

C21_WitnessUnknownExtension ==
  /\ pure.op = "builder" /\ pure.in # <<>>
  /\ pure.in[Len(pure.in)].fn = "file"
  /\ pure.out.headers[Str_Content_Type] = Str_octet_stream

\* C22: the script of a CGI request is given, as REMOTE_ADDR and as
\* REMOTE_HOST, the address of the peer whose connection delivered the
\* request.
C22_RemoteAddrIsPeer ==
  (pure.op = "cgi_done" /\ pure.out.env # None) =>
    /\ pure.out.env[1][Str_REMOTE_ADDR] = pure.in.peer_addr
    /\ pure.out.env[1][Str_REMOTE_HOST] = pure.in.peer_addr

\* what the script is given is the loopback address, whoever the peer is
C22_RemoteAddrIsLoopback ==
  (pure.op = "cgi_done" /\ pure.out.env # None) =>
    /\ pure.out.env[1][Str_REMOTE_ADDR] = Str_client_ip
    /\ pure.out.env[1][Str_REMOTE_HOST] = Str_client_ip

\* C23: CONTENT_TYPE is the content type the request declared in the header
\* the parser recognises as its content type, whatever the case of the
\* header name, and text/plain only when it declared none.
C23_ContentTypeIsDeclared ==
  (pure.op = "cgi_done" /\ pure.out.env # None) =>
    pure.out.env[1][Str_CONTENT_TYPE] =
      IF \E k \in DOMAIN pure.in.request.headers : ToLower(k) = Str_content_type
      THEN pure.in.request.content_type
      ELSE Str_text_plain

\* it is so when the header is spelled Content-Type or is absent
C23_HoldsForExactName ==
  (pure.op = "cgi_done" /\ pure.out.env # None
   /\ \A k \in DOMAIN pure.in.request.headers :
        ToLower(k) = Str_content_type => k = Str_Content_Type) =>
    pure.out.env[1][Str_CONTENT_TYPE] =
      IF Str_Content_Type \in DOMAIN pure.in.request.headers
      THEN pure.in.request.content_type
      ELSE Str_text_plain

\* the script of the CGI request ran and its output was parsed
CgiAnswered ==
  /\ pure.op = "cgi_done"
  /\ pure.in.os.exists
  /\ pure.in.os.spawn_err = None
  /\ pure.in.os.wait_err = None

\* where the first blank-line separator of an output starts (0: nowhere) and
\* how long it is
FirstSeparator(output) ==
  LET crlf == FindStr(output, CRLF \o CRLF)
      lf == FindStr(output, <<LF, LF>>)
  IN  IF crlf = 0 THEN [at |-> lf, len |-> 2]
      ELSE IF lf = 0 \/ crlf < lf THEN [at |-> crlf, len |-> 4]
      ELSE [at |-> lf, len |-> 2]
HeaderBlock(output) == SubSeq(output, 1, FirstSeparator(output).at - 1)
AfterSeparator(output) ==
  SubSeq(output, FirstSeparator(output).at + FirstSeparator(output).len, Len(output))

\* C24: the output of a script is split at its first blank-line separator,
\* CRLF CRLF or LF LF, whichever occurs first: every byte after it is the
\* body, and no header comes from a line after it; without a separator the
\* whole output is the body and the status is 200.
C24_SplitAtFirstSeparator ==
  CgiAnswered =>
    LET output == pure.in.os.stdout
        response == pure.out.response[1]
    IN  IF FirstSeparator(output).at = 0
        THEN response.body = output /\ response.status = 200
        ELSE /\ response.body = AfterSeparator(output)
             /\ \A k \in DOMAIN response.headers :
                  k = Str_Content_Type \/ Contains(HeaderBlock(output), k)

\* it is split so when CRLF CRLF does not occur after an LF LF
C24_HoldsUnlessLFLFFirst ==
  CgiAnswered =>
    LET output == pure.in.os.stdout
        response == pure.out.response[1]
    IN  IF FirstSeparator(output).at = 0
        THEN response.body = output /\ response.status = 200
        ELSE (FirstSeparator(output).len = 4 \/ ~Contains(output, CRLF \o CRLF)) =>
               /\ response.body = AfterSeparator(output)
               /\ \A k \in DOMAIN response.headers :
                    k = Str_Content_Type \/ Contains(HeaderBlock(output), k)

\* the lines of the header block of an output (none without a separator)
HeaderBlockLines(output) ==
  IF FirstSeparator(output).at = 0 THEN <<>> ELSE Lines(HeaderBlock(output))
\* what follows `Status: ` in a Status line: the code up to the first space
\* and, when there is one, the text after it
StatusCodeOf(line) ==
  LET rest == SubSeq(line, Len(Str_Status) + 2, Len(line))
      sp == Find(rest, " ")
  IN  IF sp = 0 THEN rest ELSE SubSeq(rest, 1, sp - 1)
StatusTextOf(line) ==
  LET rest == SubSeq(line, Len(Str_Status) + 2, Len(line))
      sp == Find(rest, " ")
  IN  IF sp = 0 THEN None ELSE Some(SubSeq(rest, sp + 1, Len(rest)))
\* a numeric status code: the three digits of an HTTP status
IsStatusCode(code) ==
  /\ Len(code) = 3
  /\ \A i \in 1..3 : \E k \in 1..10 : DecDigits[k] = code[i]
Str_Hello == <<"H","e","l","l","o">>

\* C25: a line `Status: <code> [text]` with a numeric code in the header
\* block of a script's output makes the code the status of the response and
\* the text, when given, its status text; without a Status line the response
\* is 200 OK; the output `Status: 200 OK` CRLF CRLF `Hello` gives status 200
\* and the body Hello.
C25_StatusLine ==
  CgiAnswered =>
    LET output == pure.in.os.stdout
        response == pure.out.response[1]
        lines == HeaderBlockLines(output)
        st == {i \in 1..Len(lines) : StartsWith(lines[i], Str_Status \o <<" ">>)}
    IN  /\ st = {} => response.status = 200 /\ response.status_text = Str_OK
        /\ \A i \in st :
             (Cardinality(st) = 1 /\ IsStatusCode(StatusCodeOf(lines[i]))) =>
               /\ response.status = DecValue(StatusCodeOf(lines[i]))
               /\ StatusTextOf(lines[i]) # None =>
                    response.status_text = StatusTextOf(lines[i])[1]
        /\ output = Str_Status_200_OK \o CRLF \o CRLF \o Str_Hello =>
             response.status = 200 /\ response.body = Str_Hello

\* a script has printed `Status: 404 Not Found` and the response is 404 Not
\* Found
C25_Witness ==
  /\ CgiAnswered
  /\ StartsWith(pure.in.os.stdout, Str_Status \o <<" ", "4", "0", "4", " ">> \o Str_Not_Found)
  /\ pure.out.response[1].status = 404
  /\ pure.out.response[1].status_text = Str_Not_Found

\* the content-type headers of a response, whatever their case, and the
\* content-type lines a script printed as <<name, value>>
ContentTypeKeys(response) ==
  {k \in DOMAIN response.headers : ToLower(k) = Str_content_type}
PrintedContentTypes(output) ==
  LET lines == HeaderBlockLines(output)
  IN  {<<Trim(SubSeq(lines[i], 1, Find(lines[i], ":") - 1)),
         Trim(SubSeq(lines[i], Find(lines[i], ":") + 1, Len(lines[i])))>> :
         i \in {j \in 1..Len(lines) :
                  /\ Find(lines[j], ":") # 0
                  /\ ToLower(Trim(SubSeq(lines[j], 1, Find(lines[j], ":") - 1)))
                       = Str_content_type}}

\* C26: the response made from a script's output has exactly one
\* content-type header: the one the script printed, in whatever letter case,
\* and otherwise Content-Type: text/html.
C26_OneContentType ==
  CgiAnswered =>
    LET response == pure.out.response[1]
        printed == PrintedContentTypes(pure.in.os.stdout)
    IN  /\ Cardinality(ContentTypeKeys(response)) = 1
        /\ \A k \in ContentTypeKeys(response) :
             IF printed = {}
             THEN k = Str_Content_Type /\ response.headers[k] = Str_text_html
             ELSE <<k, response.headers[k]>> \in printed

\* there is one when the script printed it as Content-Type or printed none
C26_HoldsForExactName ==
  (CgiAnswered
   /\ \A p \in PrintedContentTypes(pure.in.os.stdout) : p[1] = Str_Content_Type) =>
    LET response == pure.out.response[1]
        printed == PrintedContentTypes(pure.in.os.stdout)
    IN  /\ Cardinality(ContentTypeKeys(response)) = 1
        /\ \A k \in ContentTypeKeys(response) :
             IF printed = {}
             THEN k = Str_Content_Type /\ response.headers[k] = Str_text_html
             ELSE <<k, response.headers[k]>> \in printed

\* the fields and the files of the multipart body of the model
Fields_multipart == [x \in {<<"f">>} |-> <<"v">>]
Files_multipart ==
  [x \in {<<"u">>} |->
     [filename |-> <<"a",".","t","x","t">>, content_type |-> Str_text_css, data |-> <<"h", "i">>]]

\* C27: parse gives a multipart/form-data request with a boundary and
\* well-formed parts delimited by CRLF its form fields (the parts without a
\* filename, name to content) and its form files (the parts with a filename,
\* name to filename, content type and bytes).
C27_MultipartParsed ==
  (pure.op = "form_parsed" /\ pure.in.body = Body_multipart) =>
    /\ pure.out # None
    /\ pure.out[1].form_fields = Fields_multipart
    /\ pure.out[1].form_files = Files_multipart

\* the parts are found in the bytes as they were sent, and the request
\* whose body parse has rebuilt has neither fields nor files
C27_FoundInSentBytesOnly ==
  (pure.op = "form_parsed" /\ pure.in.body = Body_multipart) =>
    /\ parse_form_data(Str_multipart_XX, pure.in.body)
         = [fields |-> Fields_multipart, files |-> Files_multipart]
    /\ pure.out # None
    /\ pure.out[1].body # pure.in.body
    /\ pure.out[1].form_fields = EmptyMap
    /\ pure.out[1].form_files = EmptyMap

\* the request has an urlencoded body
UrlencodedParsed ==
  pure.op = "form_parsed" /\ pure.in.headers[1][2] = Str_urlencoded

\* C28: the form fields of a request with an urlencoded body are the
\* percent-decoded keys and values of its pieces (username=john&email=a%40b.com
\* gives username: john and email: a@b.com), and for every body they are
\* the mapping parse_query_string gives for the same text.
C28_FormFieldsAsQueryString ==
  UrlencodedParsed =>
    /\ pure.out # None
    /\ pure.in.body = Body_example =>
         pure.out[1].form_fields =
           InsertAll(EmptyMap, <<<<<<"u","s","e","r","n","a","m","e">>, <<"j","o","h","n">>>>, <<<<"e","m","a","i","l">>, <<"a","@","b",".","c","o","m">>>>>>)
    /\ pure.out[1].form_fields = parse_query_string(pure.in.body)

\* they are that mapping for the bodies whose pieces all hold a `=`
C28_HoldsWhenEveryPieceHasEquals ==
  (UrlencodedParsed
   /\ \A i \in 1..Len(SplitChar(pure.in.body, "&")) :
        Find(SplitChar(pure.in.body, "&")[i], "=") # 0) =>
    /\ pure.out # None
    /\ pure.in.body = Body_example =>
         pure.out[1].form_fields =
           InsertAll(EmptyMap, <<<<<<"u","s","e","r","n","a","m","e">>, <<"j","o","h","n">>>>, <<<<"e","m","a","i","l">>, <<"a","@","b",".","c","o","m">>>>>>)
    /\ pure.out[1].form_fields = parse_query_string(pure.in.body)

\* C29: GET /health through Router::handle with the routes of the server is
\* answered 200 with Content-Type application/json, a Content-Length that is
\* the length of the body, and a JSON object whose status field is
\* "healthy".
C29_HealthCheck ==
  (pure.op = "served" /\ pure.in.method = GET /\ pure.in.path = Str_health) =>
    LET response == pure.out.response IN
    /\ pure.out.handler = "handle_health"
    /\ response.status = 200
    /\ response.headers[Str_Content_Type] = Str_application_json
    /\ ~response.is_chunked
    /\ response.headers[Str_Content_Length] = to_string(Len(response.body))
    /\ Head(response.body) = "{"
    /\ response.body[Len(response.body)] = "}"
    /\ Contains(response.body, <<"\"","s","t","a","t","u","s","\"",":"," ","\"","h","e","a","l","t","h","y","\"">>)

\* GET /health?x=1 has been answered by the health check
C29_Witness ==
  /\ pure.op = "served"
  /\ pure.in.method = GET /\ pure.in.path = Str_health
  /\ pure.in.query_string # None
  /\ pure.out.response.status = 200

\* the loop is handling a CGI request: it was dispatched and its response
\* is not written yet
CgiInProgress ==
  /\ pc \in {"dispatch", "cgi"}
  /\ cur \in DOMAIN connections
  /\ connections[cur].request # None
  /\ StartsWith(connections[cur].request[1].path, Str_cgi_bin)

\* in this step the server has neither read from, nor closed, the socket of
\* peer q
Untouched(q) ==
  /\ peers'[q].st = "gone" => peers[q].st = "gone"
  /\ \/ peers'[q].sockq = peers[q].sockq
     \/ peers'[q].tosend # peers[q].tosend
     \/ peers[q].st = "open" /\ peers'[q].st = "reset"

\* C30: from the dispatch of a CGI request until its response is written
\* the reactor does no accept, read, write or close for any other
\* connection: a step either leaves the loop where it is, with its events,
\* its epoll set, its table and its answers unchanged, or is the write of
\* the answer to the CGI request.  So as long as the subprocess does not
\* exit, no further readiness event is processed.
C30_CgiBlocksReactor ==
  [][CgiInProgress =>
       LET p == connections[cur].peer IN
       /\ pending' = pending
       /\ Len(backlog') >= Len(backlog)
       /\ fatal' = fatal
       /\ \A q \in Peers \ {p} : Untouched(q) /\ log'[q] = log[q]
       /\ \A f \in DOMAIN connections \ {cur} :
            f \in DOMAIN connections' /\ connections'[f] = connections[f]
       /\ DOMAIN connections' \subseteq DOMAIN connections
       /\ epoll' \ {cur} = epoll \ {cur}
       /\ \/ /\ pc' \in {"dispatch", "cgi"}
             /\ UNCHANGED <<cur, epoll, connections, log>>
             /\ Untouched(p)
          \/ /\ pc' \in {"wait", "events"}
             /\ Len(log'[p]) = Len(log[p]) + 1
    ]_vars

\* the loop waits for the subprocess while another connection has bytes to
\* read
C30_Witness ==
  /\ pc = "cgi"
  /\ \E f \in DOMAIN connections \ {cur} :
       peers[connections[f].peer].sockq # <<>>

\* the event being handled in this step is one of connection f: an event of
\* the batch that the step consumes, or the request of f being answered
OwnEvent(f) ==
  \/ pc = "events" /\ \E e \in pending \ pending' : e.fd = f
  \/ pc \in {"dispatch", "cgi"} /\ cur = f

\* C31: the entry of a connection leaves the table, and its buffer and its
\* request slot change, only in the handling of a readiness event on that
\* connection; an epoll_wait that times out and an event on another
\* connection or on the listener leave every entry as it is.
C31_OnlyOwnEventChangesEntry ==
  [][\A f \in DOMAIN connections :
       (f \notin DOMAIN connections' \/ connections'[f] # connections[f]) =>
         OwnEvent(f)]_vars

\* the socket of one peer was closed by the server while the connection of
\* another is in the table with a part of a request in its buffer
C31_Witness ==
  /\ \E p \in Peers : peers[p].st = "gone" /\ script[p] # <<>>
  /\ \E f \in DOMAIN connections :
       connections[f].buffer # <<>> /\ connections[f].request = None

\* the parts of a body that lie between its first boundary and its closing
\* marker --XX--
Str_closing == <<"-", "-">> \o Str_XX \o <<"-", "-">>
PartsBeforeClose(body) ==
  Tail(SplitStr(SubSeq(body, 1, FindStr(body, Str_closing) - 1),
                <<"-", "-">> \o Str_XX))

\* C32: parse_multipart yields one field or one file for every part between
\* the first boundary and the closing marker, whatever the content of the
\* part, and nothing for a part after the closing marker.
C32_EveryPartBeforeClose ==
  pure.op = "multipart_parsed" =>
    /\ Cardinality(DOMAIN pure.out.fields) + Cardinality(DOMAIN pure.out.files)
         = Len(PartsBeforeClose(pure.in))
    /\ <<"h">> \notin DOMAIN pure.out.fields

\* it does so when no part before the closing marker holds two hyphens
C32_HoldsWithoutHyphens ==
  (pure.op = "multipart_parsed"
   /\ \A i \in 1..Len(PartsBeforeClose(pure.in)) :
        ~Contains(PartsBeforeClose(pure.in)[i], <<"-", "-">>)) =>
    /\ Cardinality(DOMAIN pure.out.fields) + Cardinality(DOMAIN pure.out.files)
         = Len(PartsBeforeClose(pure.in))
    /\ <<"h">> \notin DOMAIN pure.out.fields

\* the data of the chunks of a chunked body, read by their announced
\* lengths: a size line in lower-case hex without leading zeros, CRLF, that
\* many bytes, CRLF, and so on up to the terminator 0 CRLF CRLF, which must
\* end the bytes; None when the bytes are not of this form
RECURSIVE ReadChunks(_, _)
ReadChunks(bytes, acc) ==
  LET pos == FindStr(SubSeq(bytes, 1, MinOf(Len(bytes), 10)), CRLF)
      line == SubSeq(bytes, 1, pos - 1)
      n == from_str_radix16(line)
      rest == SubSeq(bytes, pos + 2, Len(bytes))
  IN  IF pos = 0 \/ n = HexErr \/ ToHex(n) # line THEN None
      ELSE IF n = 0 THEN (IF rest = CRLF THEN Some(acc) ELSE None)
      ELSE IF Len(rest) < n + 2 \/ SubSeq(rest, n + 1, n + 2) # CRLF THEN None
      ELSE ReadChunks(SubSeq(rest, n + 3, Len(rest)),
                      Append(acc, SubSeq(rest, 1, n)))

\* C33: the bytes to_bytes emits after the header block of a chunked
\* response with body b are chunks `<hex length>` CRLF `<data>` CRLF and the
\* terminator 0 CRLF CRLF; every chunk but the last holds 1024 bytes, none
\* is empty, each announced length is the length of its data, and the data
\* in order are b; an empty body gives the terminator alone.
C33_ChunkFraming ==
  pure.op \in {"encoded", "long_encoded"} =>
    LET r == ReadChunks(pure.out, <<>>) IN
    /\ r # None
    /\ \A i \in 1..Len(r[1]) :
         /\ Len(r[1][i]) >= 1
         /\ Len(r[1][i]) <= 1024
         /\ i < Len(r[1]) => Len(r[1][i]) = 1024
    /\ Concat(r[1]) = pure.in
    /\ pure.in = <<>> => pure.out = <<"0", CR, LF, CR, LF>>

\* a body of 1025 bytes was emitted as a chunk of 1024 bytes and one of 1
C33_Witness ==
  /\ pure.op = "long_encoded"
  /\ Len(pure.in) = 1025
  /\ ReadChunks(pure.out, <<>>) # None
  /\ Len(ReadChunks(pure.out, <<>>)[1]) = 2

\* a well-formed hex size line: one or more hex digits, and its value
HexChars ==
  {"0","1","2","3","4","5","6","7","8","9","a","b","c","d","e","f",
   "A","B","C","D","E","F"}
IsHexSize(line) == line # <<>> /\ \A i \in 1..Len(line) : line[i] \in HexChars
RECURSIVE HexNumber(_)
HexNumber(line) ==
  IF line = <<>> THEN 0
  ELSE HexNumber(SubSeq(line, 1, Len(line) - 1)) * 16
       + (CHOOSE k \in 0..15 : ToLower(<<line[Len(line)]>>) = <<HexDigits[k + 1]>>)

\* the output C34 describes, for the lines from i on: a size line that is
\* not hex is passed over, a size line 0 ends the output, and any other
\* size line n adds the first min(n, length) bytes of the line after it
RECURSIVE Alternating(_, _)
Alternating(lines, i) ==
  IF i > Len(lines) THEN <<>>
  ELSE IF ~IsHexSize(lines[i]) THEN Alternating(lines, i + 1)
  ELSE IF HexNumber(lines[i]) = 0 THEN <<>>
  ELSE (IF i + 1 > Len(lines) THEN <<>>
        ELSE SubSeq(lines[i + 1], 1,
                    IF HexNumber(lines[i]) < Len(lines[i + 1])
                    THEN HexNumber(lines[i]) ELSE Len(lines[i + 1])))
       \o Alternating(lines, i + 2)

Str_Wikipedia == <<"W","i","k","i","p","e","d","i","a">>

WellFormedEscape(s, i) ==
  /\ s[i] = "%" /\ i + 2 <= Len(s)
  /\ s[i + 1] \in HexChars /\ s[i + 2] \in HexChars
RECURSIVE ClaimedDecode(_, _)
ClaimedDecode(s, i) ==
  IF i > Len(s) THEN <<>>
  ELSE IF WellFormedEscape(s, i)
  THEN <<CodeByte(HexNumber(<<s[i + 1], s[i + 2]>>))>> \o ClaimedDecode(s, i + 3)
  ELSE IF s[i] = "%" THEN ClaimedDecode(s, i + 1)
  ELSE IF s[i] = "+" THEN <<" ">> \o ClaimedDecode(s, i + 1)
  ELSE <<s[i]>> \o ClaimedDecode(s, i + 1)

\* an ASCII string was decoded
AsciiDecoded ==
  /\ pure.op = "url_decoded"
  /\ \A i \in 1..Len(pure.in) : ByteCode(pure.in[i]) < 128

\* C35: url_decode turns %XX into the byte XX only when both X are hex
\* digits and `+` into a space; a `%` without two hex digits after it gives
\* no output and decoding goes on at the byte right after it, so that every
\* byte outside the well-formed escapes reaches the output.
C35_MalformedEscapeKeepsBytes ==
  AsciiDecoded => pure.out = ClaimedDecode(pure.in, 1)

\* it is so for the strings in which every `%` starts a well-formed escape
\* of an ASCII byte
C35_HoldsForWellFormed ==
  (AsciiDecoded
   /\ \A i \in 1..Len(pure.in) :
        pure.in[i] = "%" =>
          WellFormedEscape(pure.in, i)
          /\ HexNumber(<<pure.in[i + 1], pure.in[i + 2]>>) < 128) =>
    pure.out = ClaimedDecode(pure.in, 1)

\* C36: after every pass of the event loop the buffer of each connection
\* in the table is empty or is one on which parse returns no request: the
\* bytes of an answered request do not stay in the buffer to be parsed
\* again.
C36_NoParsableBufferAfterPass ==
  pc = "wait" =>
    \A fd \in DOMAIN connections :
      /\ connections[fd].request = None
      /\ connections[fd].buffer = <<>> \/ parse(connections[fd].buffer) = None

\* a pass has ended with bytes in the buffer of a connection whose peer was
\* answered before
C36_Witness ==
  /\ pc = "wait"
  /\ \E fd \in DOMAIN connections :
       /\ connections[fd].buffer # <<>>
       /\ log[connections[fd].peer] # <<>>

\* the requests parse finds in what peer p sends: a read returns the pieces
\* that arrived since the read before it, so that a buffer holds a run of
\* consecutive pieces
ParsedFromStream(p) ==
  {parse(Concat(SubSeq(script[p], a, b))) :
     a \in 1..Len(script[p]), b \in 1..Len(script[p])} \ {None}

\* C37: what the server writes to the socket of a connection is the
\* response to a request parsed from the bytes received on that connection:
\* every answer a peer gets is to a request parse finds in the bytes this
\* peer sent, also when its descriptor was the one of another connection
\* before.
C37_AnswersOwnRequest ==
  \A p \in Peers : \A i \in 1..Len(log[p]) :
    /\ Some(log[p][i].req) \in ParsedFromStream(p)
    /\ log[p][i].handler = handle(ServerRoutes, log[p][i].req)

\* two peers were answered on the same descriptor, one after the other
C37_Witness ==
  \E p, q \in Peers :
    /\ p # q /\ log[p] # <<>> /\ log[q] # <<>>
    /\ log[p][1].fd = log[q][1].fd
    /\ log[p][1].req # log[q][1].req

\* the directories and the file a relative path names, its "." and empty
\* segments dropped and each ".." taking the directory before it away (or
\* staying, as "..", where there is none)
RECURSIVE Resolve(_, _)
Resolve(segs, stack) ==
  IF segs = <<>> THEN stack
  ELSE IF Head(segs) \in {<<>>, <<".">>} THEN Resolve(Tail(segs), stack)
  ELSE IF Head(segs) = <<".", ".">> /\ stack # <<>> /\ stack[Len(stack)] # <<".", ".">>
  THEN Resolve(Tail(segs), SubSeq(stack, 1, Len(stack) - 1))
  ELSE Resolve(Tail(segs), Append(stack, Head(segs)))
InsideCgiBin(path) ==
  LET r == Resolve(SplitChar(path, "/"), <<>>)
  IN  Len(r) >= 2 /\ r[1] = <<"c","g","i","-","b","i","n">>

\* C38: for every request path that starts with /cgi-bin/, the file that is
\* tested for existence, made executable and spawned lies inside the
\* cgi-bin directory.
C38_ScriptInsideCgiBin ==
  (pure.op = "cgi_done" /\ StartsWith(pure.in.request.path, Str_cgi_bin)) =>
    /\ InsideCgiBin(pure.out.tested)
    /\ \A i \in 2..Len(pure.out.ran) : InsideCgiBin(pure.out.ran[i])

\* what holds: the file is the one the path names after /cgi-bin/, looked
\* up from cgi-bin, so that it is inside for a path without ".." segments
C38_InsideWithoutParentSegments ==
  (pure.op = "cgi_done" /\ StartsWith(pure.in.request.path, Str_cgi_bin)) =>
    /\ pure.out.tested = Str_cgi_dir \o trim_start_matches(pure.in.request.path, Str_cgi_bin)
    /\ ((\A i \in 1..Len(SplitChar(pure.in.request.path, "/")) :
            SplitChar(pure.in.request.path, "/")[i] # <<".", ".">>)
          => InsideCgiBin(pure.out.tested))

\* the variables of the server in the environment of a script
ServerKeys ==
  {Str_REQUEST_METHOD, Str_SCRIPT_NAME, Str_PATH_INFO, Str_QUERY_STRING,
   Str_CONTENT_LENGTH, Str_SERVER_NAME, Str_SERVER_PORT, Str_SERVER_PROTOCOL,
   Str_SERVER_SOFTWARE, Str_REMOTE_ADDR, Str_REMOTE_HOST,
   Str_GATEWAY_INTERFACE, Str_PATH, Str_HOME, Str_USER}
\* two environments have the same variables of the server
SameServerKeys(e1, e2) ==
  \A k \in ServerKeys :
    /\ k \in DOMAIN e1 <=> k \in DOMAIN e2
    /\ k \in DOMAIN e1 => e1[k] = e2[k]

\* C39: the variables of the server in the environment of a script do not
\* depend on the headers of the request: the environment the script was
\* given has the same ones as the environment of the same request with any
\* other headers, and what differs with the headers is CONTENT_TYPE or has
\* a name that starts with HTTP_.
C39_ServerKeysIgnoreHeaders ==
  (pure.op = "cgi_done" /\ pure.out.env # None) =>
    \A r \in CgiRequests :
      LET other == build_cgi_env([pure.in.request EXCEPT !.headers = r.headers],
                                 Str_client_ip, pure.in.os.environ)
          env == pure.out.env[1]
      IN  /\ SameServerKeys(env, other)
          /\ \A k \in DOMAIN env \cup DOMAIN other :
               (k \notin DOMAIN env \/ k \notin DOMAIN other \/ env[k] # other[k])
                 => (k = Str_CONTENT_TYPE \/ StartsWith(k, Str_HTTP_))

\* a script ran for a request with a Remote-Addr header: the header is in
\* HTTP_REMOTE_ADDR and REMOTE_ADDR is the address the server gives
C39_Witness ==
  /\ pure.op = "cgi_done" /\ pure.out.env # None
  /\ Str_Remote_Addr \in DOMAIN pure.in.request.headers
  /\ pure.out.env[1][Str_HTTP_ \o <<"R","E","M","O","T","E","_","A","D","D","R">>] = <<"6">>
  /\ pure.out.env[1][Str_REMOTE_ADDR] = Str_client_ip

\* the response declares the chunked transfer encoding in its header block
DeclaresChunked(response) ==
  /\ Str_Transfer_Encoding \in DOMAIN response.headers
  /\ response.headers[Str_Transfer_Encoding] = Str_chunked_value
\* the bytes after the header block are the chunks of the body and the
\* terminator
ChunkFramed(response) ==
  body_bytes(response.body, response.is_chunked)
    = encode_chunks(response.body, 1) \o <<"0", CR, LF, CR, LF>>

\* C40: for every sequence of calls on the builder that ends in build, the
\* serialized response uses the chunk framing exactly when its header block
\* has Transfer-Encoding: chunked.
C40_FramingIffDeclared ==
  pure.op = "built" => (ChunkFramed(pure.out) <=> DeclaresChunked(pure.out))

\* what holds: they agree when the calls neither set the Transfer-Encoding
\* header by hand nor switch the chunked mode off; the framing alone
\* follows the last chunked call
C40_HoldsWithoutHeaderCallAndSwitchOff ==
  pure.op = "built" =>
    /\ ((\A i \in 1..Len(pure.in) :
           /\ ~(pure.in[i].fn = "header" /\ pure.in[i].args[1] = Str_Transfer_Encoding)
           /\ ~(pure.in[i].fn = "chunked" /\ pure.in[i].args = FALSE))
          => (ChunkFramed(pure.out) <=> DeclaresChunked(pure.out)))
    /\ (ChunkFramed(pure.out) => DeclaresChunked(pure.out))

====
